---------------------------- MODULE Spec2Model ----------------------------
(***************************************************************************)
(* A model of the retrieval core of AI_MidLayer: the rank fusion of        *)
(* rag/fusion.py, the chunkers of knowledge/chunker.py, knowledge/bm25.py  *)
(* and knowledge/index.py, and the two indexes with the operations that    *)
(* write to them (knowledge/hybrid.py, cli/main.py).                       *)
(*                                                                         *)
(* Six specifications share the module:                                    *)
(*   SpecFusion  reciprocal_rank_fusion applied to bounded result lists    *)
(*   SpecChunk   the five chunking paths applied to bounded texts          *)
(*   SpecKB      the lexical and the semantic index under index, remove    *)
(*               and search operations                                     *)
(*   SpecRank    detect_strong_signal, position_aware_blend and            *)
(*               LLMReranker.rerank and _parse_score applied to bounded    *)
(*               arguments                                                 *)
(*   SpecHybrid  one hybrid query, from its two searches to its result     *)
(*   SpecConv    the history of a ConversationRAG under chat and           *)
(*               clear_history                                             *)
(* Each one leaves the variables of the others at their initial value.     *)
(*                                                                         *)
(* Text is a sequence of one-character strings.  Scores are exact          *)
(* rationals, kept as integers over the common denominator Scale.          *)
(***************************************************************************)
EXTENDS Integers, Sequences, FiniteSets, TLC

VARIABLES
    \* reciprocal_rank_fusion: its arguments and its return value
    result_lists, weights, top_n, fused, f_pc,
    \* a chunker call: the text, the chunker's configuration, the path taken
    \* ("text", "markdown", "python", "bm25", "vector"), the chunks returned
    doc_text, cfg_chunk_size, cfg_overlap, c_path, out_chunks, c_pc,
    \* the knowledge base: the ids in FileStore's index; the tables of bm25.db;
    \* the LanceDB table, its rows in insertion order; the uuids handed out;
    \* the writing operations done (also the clock); the last operation and
    \* what it returned; the results of the last search; the ids removed from
    \* the knowledge base and not indexed since
    store, bm25, vec_table, uuid_count, n_ops, last_op, last_results, removed,
    \* the searches made since the last writing operation
    n_searches,
    \* the chunks of each content and the contents each query matches, worked
    \* out once and never changed
    chunked,
    \* detect_strong_signal: its argument and its return value
    s_results, s_signal, s_pc,
    \* position_aware_blend: its arguments and its return value
    b_rrf, b_ext, b_rank, b_out, b_pc,
    \* LLMReranker.rerank: the reranker's use_position_blend, the arguments,
    \* what the oracle answers for each result, the results the oracle was
    \* called for (by their place in the list, in call order), the return value
    r_use_blend, r_results, r_top_k, r_oracle, r_calls, r_out, r_pc,
    \* a hybrid query: the entry point; what the two sources would return to an
    \* unlimited search; top_k; the lists the two searches returned; the result
    h_path, h_src, h_top_k, h_vector_results, h_bm25_results, h_out, h_pc,
    \* LLMReranker._parse_score: its argument and its return value
    p_response, p_out, p_pc,
    \* ConversationRAG: max_history, history, and every pair chat has recorded
    \* since the history was last empty at construction or clear_history
    max_history, history, chat_log, conv_pc

fusionVars == <<result_lists, weights, top_n, fused, f_pc>>

chunkVars == <<doc_text, cfg_chunk_size, cfg_overlap, c_path, out_chunks, c_pc>>

kbVars ==
    <<store, bm25, vec_table, uuid_count, n_ops, last_op, last_results, removed,
      n_searches, chunked>>

signalVars == <<s_results, s_signal, s_pc>>

blendVars == <<b_rrf, b_ext, b_rank, b_out, b_pc>>

rerankVars == <<r_use_blend, r_results, r_top_k, r_oracle, r_calls, r_out, r_pc>>

parseVars == <<p_response, p_out, p_pc>>

rankVars == <<signalVars, blendVars, rerankVars, parseVars>>

hybridVars ==
    <<h_path, h_src, h_top_k, h_vector_results, h_bm25_results, h_out, h_pc>>

convVars == <<max_history, history, chat_log, conv_pc>>

vars == <<fusionVars, chunkVars, kbVars, rankVars, hybridVars, convVars>>

(***************************************************************************)
(* Generic helpers                                                         *)
(***************************************************************************)
Min(a, b) == IF a < b THEN a ELSE b

Max(a, b) == IF a > b THEN a ELSE b

Range(s) == {s[i] : i \in 1..Len(s)}

RECURSIVE Gcd(_, _)
Gcd(a, b) == IF b = 0 THEN a ELSE Gcd(b, a % b)

Lcm(a, b) == (a * b) \div Gcd(a, b)

RECURSIVE LcmUpTo(_, _)
LcmUpTo(lo, hi) == IF hi < lo THEN 1 ELSE Lcm(LcmUpTo(lo, hi - 1), hi)

RECURSIVE SumOver(_, _)
\* the sum of f[x] over the finite set S
SumOver(S, f) ==
    IF S = {} THEN 0
    ELSE LET x == CHOOSE x \in S : TRUE IN f[x] + SumOver(S \ {x}, f)

(***************************************************************************)
(* rag/fusion.py: reciprocal_rank_fusion                                   *)
(***************************************************************************)
\* k: int = 60
K == 60

\* top_rank_bonus: float = 0.05 and top3_bonus: float = 0.02, in hundredths
TopRankBonusPct == 5

Top3BonusPct == 2

\* `elif rank < 3`
Top3Cut == 3

\* The chunks the result lists are drawn from: two with an id, two whose id is
\* empty and whose identity falls back on doc_id and start_idx.
FChunks ==
    { [id |-> "c1", doc_id |-> "d1", start_idx |-> 0],
      [id |-> "c2", doc_id |-> "d1", start_idx |-> 4],
      [id |-> "",   doc_id |-> "d2", start_idx |-> 0],
      [id |-> "",   doc_id |-> "d2", start_idx |-> 4] }

\* The longest result list.  A list holds a chunk at most once, as the rows an
\* index returns do, so no list is longer than FChunks has members.
MaxLen == 4

MaxRank == Min(MaxLen, Cardinality(FChunks)) - 1

\* The common denominator of every score: 1/(K+r+1) for each rank r, and 1/100.
Scale == Lcm(100, LcmUpTo(K + 1, K + MaxRank + 1))

TopRankBonus == TopRankBonusPct * (Scale \div 100)

Top3Bonus == Top3BonusPct * (Scale \div 100)

\* The SearchResult at `rank` of list `list_idx`: its score (in hundredths)
\* falls with the rank and tells the two lists' result objects apart.
MkResult(c, list_idx, rank) ==
    [chunk |-> c, score |-> 90 - 10 * rank - list_idx]

\* the sequences of m distinct chunks
DistinctSeqs(m) ==
    { t \in [1..m -> FChunks] : \A i, j \in 1..m : i # j => t[i] # t[j] }

RankedLists(list_idx) ==
    UNION { { [i \in 1..m |-> MkResult(s[i], list_idx, i - 1)] :
                s \in DistinctSeqs(m) } : m \in 0..MaxLen }

\* result_lists: no list, one list, or the two lists of a hybrid query
ResultListsInputs ==
    { <<>> } \cup { <<a>> : a \in RankedLists(0) }
             \cup { <<a, b>> : a \in RankedLists(0), b \in RankedLists(1) }

\* weights: None, or a list of weights in units of 1.0
NoWeights == "None"

WeightsInputs == { NoWeights, <<2, 1>>, <<1, 2>>, <<2>> }

TopNInputs == { 0, 2, 30 }

\* key = result.chunk.id or f"{result.chunk.doc_id}_{result.chunk.start_idx}"
ChunkKey(c) ==
    IF c.id # "" THEN c.id ELSE c.doc_id \o "_" \o ToString(c.start_idx)

\* a contribution that takes the rank as 1-based already: weight / (k + rank)
RRFContribution_NoPlusOne(weight, rank) == weight * (Scale \div (K + rank))

\* rrf_contribution = weight / (k + rank + 1)
RRFContribution(weight, rank) == weight * (Scale \div (K + rank + 1))

\* the bonus one occurrence at `rank` adds to the score
RankBonus(rank) ==
    IF rank = 0 THEN TopRankBonus
    ELSE IF rank < Top3Cut THEN Top3Bonus
    ELSE 0

\* an iteration that leaves the entry of a key it has seen as it is
RRFAdd_KeepFirst(scores, result, weight, rank, list_idx) ==
    LET key == ChunkKey(result.chunk)
    IN IF \E i \in 1..Len(scores) : scores[i].key = key THEN scores
       ELSE Append(scores, [key |-> key, result |-> result,
                            rrf_score |-> RRFContribution(weight, rank) + RankBonus(rank),
                            sources |-> <<list_idx>>,
                            is_top_rank |-> rank = 0])

\* One iteration of the inner loop: `scores` is the dict, kept as the sequence
\* of its values in insertion order.
RRFAdd(scores, result, weight, rank, list_idx) ==
    LET key == ChunkKey(result.chunk)
        present == \E i \in 1..Len(scores) : scores[i].key = key
        base == IF present THEN scores
                ELSE Append(scores, [key |-> key, result |-> result,
                                     rrf_score |-> 0, sources |-> <<>>,
                                     is_top_rank |-> FALSE])
        i == CHOOSE i \in 1..Len(base) : base[i].key = key
    IN [base EXCEPT
          ![i].rrf_score = @ + RRFContribution(weight, rank) + RankBonus(rank),
          ![i].sources = Append(@, list_idx),
          ![i].is_top_rank = @ \/ rank = 0]

RECURSIVE RRFList(_, _, _, _, _)
\* for rank, result in enumerate(results), from `rank` on
RRFList(scores, results, weight, rank, list_idx) ==
    IF rank >= Len(results) THEN scores
    ELSE RRFList(RRFAdd(scores, results[rank + 1], weight, rank, list_idx),
                 results, weight, rank + 1, list_idx)

\* weights = [1.0] * len(result_lists) when None
EffectiveWeights(rl, w) ==
    IF w = NoWeights THEN [i \in 1..Len(rl) |-> 1] ELSE w

\* zip(result_lists, weights) stops at the shorter of the two
ZipLen(rl, w) == Min(Len(rl), Len(EffectiveWeights(rl, w)))

RECURSIVE RRFLists(_, _, _, _)
\* for list_idx, (results, weight) in enumerate(zip(...)), from list_idx on
RRFLists(scores, rl, w, list_idx) ==
    IF list_idx >= ZipLen(rl, w) THEN scores
    ELSE RRFLists(RRFList(scores, rl[list_idx + 1],
                          EffectiveWeights(rl, w)[list_idx + 1], 0, list_idx),
                  rl, w, list_idx + 1)

\* a sort that puts x before the entries of equal score (not stable)
InsertDesc_Unstable(sorted, x) ==
    LET n == Cardinality({i \in 1..Len(sorted) :
                            sorted[i].rrf_score > x.rrf_score})
    IN SubSeq(sorted, 1, n) \o <<x>> \o SubSeq(sorted, n + 1, Len(sorted))

\* where sorted(..., reverse=True) puts x in an already sorted prefix: after
\* every entry whose score is at least x's (the sort is stable)
InsertDesc(sorted, x) ==
    LET n == Cardinality({i \in 1..Len(sorted) :
                            sorted[i].rrf_score >= x.rrf_score})
    IN SubSeq(sorted, 1, n) \o <<x>> \o SubSeq(sorted, n + 1, Len(sorted))

RECURSIVE SortedDesc(_, _)
SortedDesc(entries, n) ==
    IF n = 0 THEN <<>> ELSE InsertDesc(SortedDesc(entries, n - 1), entries[n])

\* sorted(scores.values(), key=lambda x: x.rrf_score, reverse=True)
SortByScore(entries) == SortedDesc(entries, Len(entries))

\* sorted_results[:top_n], for top_n >= 0
Truncate(s, n) == SubSeq(s, 1, Min(n, Len(s)))

\* scores.values(): the FusionResult objects, in insertion order
DictValues(scores) ==
    [i \in 1..Len(scores) |->
       [result |-> scores[i].result, rrf_score |-> scores[i].rrf_score,
        sources |-> scores[i].sources, is_top_rank |-> scores[i].is_top_rank]]

reciprocal_rank_fusion(rl, w, n) ==
    IF Len(rl) = 0 THEN <<>>
    ELSE Truncate(SortByScore(DictValues(RRFLists(<<>>, rl, w, 0))), n)

(***************************************************************************)
(* Python's str operations, on sequences of characters                     *)
(***************************************************************************)
SetMax(S) == CHOOSE x \in S : \A y \in S : y <= x

SetMin(S) == CHOOSE x \in S : \A y \in S : x <= y

\* s[a:b], with Python's reading of negative and out-of-range indexes
PySlice(s, a, b) ==
    LET n  == Len(s)
        lo == IF a < 0 THEN Max(a + n, 0) ELSE Min(a, n)
        hi == IF b < 0 THEN Max(b + n, 0) ELSE Min(b, n)
    IN IF lo >= hi THEN <<>> ELSE SubSeq(s, lo + 1, hi)

\* s.rfind(sep): the highest 0-based index where sep starts, or -1
RFind(s, sep) ==
    LET hits == { i \in 0..(Len(s) - Len(sep)) :
                    SubSeq(s, i + 1, i + Len(sep)) = sep }
    IN IF hits = {} THEN -1 ELSE SetMax(hits)

IsSpace(c) == c \in {" ", "\n", "\t"}

\* s.strip()
Strip(s) ==
    LET keep == { i \in 1..Len(s) : ~IsSpace(s[i]) }
    IN IF keep = {} THEN <<>> ELSE SubSeq(s, SetMin(keep), SetMax(keep))

RECURSIVE SplitLines(_)
\* s.split('\n')
SplitLines(s) ==
    LET nl == { i \in 1..Len(s) : s[i] = "\n" }
    IN IF nl = {} THEN <<s>>
       ELSE <<SubSeq(s, 1, SetMin(nl) - 1)>>
              \o SplitLines(SubSeq(s, SetMin(nl) + 1, Len(s)))

RECURSIVE JoinLines(_)
\* '\n'.join(lines)
JoinLines(lines) ==
    IF Len(lines) = 0 THEN <<>>
    ELSE IF Len(lines) = 1 THEN lines[1]
    ELSE lines[1] \o <<"\n">> \o JoinLines(Tail(lines))

StartsWith(s, p) == Len(s) >= Len(p) /\ SubSeq(s, 1, Len(p)) = p

\* \w, over the characters the texts are made of
IsWordChar(c) == c \in {"a", "c", "d", "e", "f", "l", "s"}

(***************************************************************************)
(* knowledge/chunker.py: SmartChunker                                      *)
(***************************************************************************)
\* DEFAULT_CHUNK_SIZE and DEFAULT_OVERLAP
DEFAULT_CHUNK_SIZE == 500

DEFAULT_OVERLAP == 100

\* The second sentence separator of _find_break_point, as the file holds it:
\* three characters, U+00E3 U+20AC U+201A.
SentenceSeps ==
    << <<".", " ">>, <<"U+00E3", "U+20AC", "U+201A">>, <<"!", " ">>, <<"?", " ">> >>

RECURSIVE FirstSentenceBreak(_, _)
\* for sep in [...]: the first separator found past the middle decides
FirstSentenceBreak(text, k) ==
    IF k > Len(SentenceSeps) THEN -1
    ELSE LET idx == RFind(text, SentenceSeps[k])
         IN IF idx > Len(text) \div 2 THEN idx + Len(SentenceSeps[k])
            ELSE FirstSentenceBreak(text, k + 1)

\* SmartChunker._find_break_point
find_break_point(text) ==
    IF RFind(text, <<"\n", "\n">>) > Len(text) \div 2
      THEN RFind(text, <<"\n", "\n">>) + 2
    ELSE IF FirstSentenceBreak(text, 1) >= 0
      THEN FirstSentenceBreak(text, 1)
    ELSE IF RFind(text, <<"\n">>) > Len(text) \div 2
      THEN RFind(text, <<"\n">>) + 1
    ELSE IF RFind(text, <<" ">>) > Len(text) \div 3
      THEN RFind(text, <<" ">>) + 1
    ELSE Len(text)

\* the window [start, end) of one iteration of _chunk_text
WindowEnd(text, cs, start) ==
    LET end == start + cs
        best_break == find_break_point(PySlice(text, start, end))
    IN IF end < Len(text) /\ best_break > cs \div 2
         THEN start + best_break
         ELSE end

\* start = end - self.overlap
NextStart(end, ov) == end - ov

RECURSIVE ChunkTextLoop(_, _, _, _, _, _, _)
\* The while loop of _chunk_text.  The loop's state is `start` alone, so a
\* start it has been at before means it never ends: returns is then FALSE.
\* So it is when overlap >= chunk_size and start is so far below zero that
\* text[start:end] is empty: every later window is chunk_size wide and start
\* goes on falling, or stays.
ChunkTextLoop(text, cs, ov, base_idx, start, chunks, visited) ==
    IF ~(start < Len(text)) THEN [returns |-> TRUE, chunks |-> chunks]
    ELSE IF start \in visited THEN [returns |-> FALSE, chunks |-> chunks]
    ELSE IF ov >= cs /\ start < -(Len(text) + cs)
      THEN [returns |-> FALSE, chunks |-> chunks]
    ELSE LET end == WindowEnd(text, cs, start)
             chunk == [content   |-> Strip(PySlice(text, start, end)),
                       start_idx |-> base_idx + start,
                       end_idx   |-> base_idx + end]
         IN IF NextStart(end, ov) >= Len(text)
              THEN [returns |-> TRUE, chunks |-> Append(chunks, chunk)]
              ELSE ChunkTextLoop(text, cs, ov, base_idx, NextStart(end, ov),
                                 Append(chunks, chunk), visited \cup {start})

\* SmartChunker._chunk_text(text, doc_id, metadata, base_idx)
SmartChunker_chunk_text(text, cs, ov, base_idx) ==
    ChunkTextLoop(text, cs, ov, base_idx, 0, <<>>, {})

\* re.match(r'^(#{1,6})\s+(.+)$', line): the heading's level, or 0
HeadingLevel(line) ==
    LET notHash == { i \in 1..Len(line) : line[i] # "#" }
        hashes == IF notHash = {} THEN Len(line) ELSE SetMin(notHash) - 1
    IN IF /\ hashes >= 1 /\ hashes <= 6
          /\ Len(line) >= hashes + 2
          /\ IsSpace(line[hashes + 1])
       THEN hashes ELSE 0

\* current_section: None, or a heading (here <<level>>)
NoSection == <<>>

\* the Section the scan closes: one with a heading, or the content before
\* the first heading when it is not blank
ClosedSection(sections, cur, cur_lines, start_idx, end_idx) ==
    IF cur # NoSection
      THEN Append(sections, [level |-> cur[1], content |-> JoinLines(cur_lines),
                             start_idx |-> start_idx, end_idx |-> end_idx])
    ELSE IF Strip(JoinLines(cur_lines)) # <<>>
      THEN Append(sections, [level |-> 0, content |-> JoinLines(cur_lines),
                             start_idx |-> start_idx, end_idx |-> end_idx])
    ELSE sections

RECURSIVE MdScan(_, _, _, _, _, _, _)
\* the loop over the lines of _detect_markdown_sections, from line i on;
\* cur is current_section
MdScan(lines, i, sections, cur, cur_lines, cur_start, char_pos) ==
    IF i > Len(lines)
      THEN \* the final section
           IF Len(cur_lines) > 0
             THEN ClosedSection(sections, cur, cur_lines, cur_start,
                                Len(JoinLines(lines)))
             ELSE sections
    ELSE IF HeadingLevel(lines[i]) > 0
      THEN MdScan(lines, i + 1,
                  IF cur # NoSection \/ Len(cur_lines) > 0
                    THEN ClosedSection(sections, cur, cur_lines,
                                       IF cur # NoSection THEN cur_start ELSE 0,
                                       char_pos)
                    ELSE sections,
                  <<HeadingLevel(lines[i])>>, <<lines[i]>>, char_pos,
                  char_pos + Len(lines[i]) + 1)
    ELSE MdScan(lines, i + 1, sections, cur, Append(cur_lines, lines[i]),
                cur_start, char_pos + Len(lines[i]) + 1)

\* SmartChunker._detect_markdown_sections
detect_markdown_sections(text) ==
    MdScan(SplitLines(text), 1, <<>>, NoSection, <<>>, 0, 0)

RECURSIVE MdChunks(_, _, _, _, _)
\* the loop over the sections of _chunk_markdown, from section i on
MdChunks(sections, cs, ov, i, acc) ==
    IF i > Len(sections) THEN [returns |-> TRUE, chunks |-> acc]
    ELSE LET section == sections[i]
         IN IF 2 * Len(section.content) <= 3 * cs    \* <= chunk_size * 1.5
              THEN MdChunks(sections, cs, ov, i + 1,
                            Append(acc, [content   |-> Strip(section.content),
                                         start_idx |-> section.start_idx,
                                         end_idx   |-> section.end_idx]))
              ELSE LET sub == SmartChunker_chunk_text(section.content, cs, ov,
                                                      section.start_idx)
                   IN IF sub.returns
                        THEN MdChunks(sections, cs, ov, i + 1, acc \o sub.chunks)
                        ELSE [returns |-> FALSE, chunks |-> acc \o sub.chunks]

\* SmartChunker._chunk_markdown
chunk_markdown(text, cs, ov) ==
    IF detect_markdown_sections(text) = <<>>
      THEN SmartChunker_chunk_text(text, cs, ov, 0)
      ELSE MdChunks(detect_markdown_sections(text), cs, ov, 1, <<>>)

\* re.match(r'^(def\s+\w+|class\s+\w+)', line) on a line that starts with
\* neither a space nor a tab
IsTopLevelDef(line) ==
    /\ ~StartsWith(line, <<" ">>) /\ ~StartsWith(line, <<"\t">>)
    /\ \E kw \in { <<"d", "e", "f">>, <<"c", "l", "a", "s", "s">> } :
         /\ StartsWith(line, kw)
         /\ \E j \in (Len(kw) + 2)..Len(line) :
              /\ IsWordChar(line[j])
              /\ \A m \in (Len(kw) + 1)..(j - 1) : IsSpace(line[m])

RECURSIVE PyBlocks(_, _, _, _)
\* the loop over the lines of _chunk_python, from line i on: the blocks, each
\* the sequence of its lines
PyBlocks(lines, i, blocks, cur_lines) ==
    IF i > Len(lines)
      THEN IF Len(cur_lines) > 0 THEN Append(blocks, cur_lines) ELSE blocks
    ELSE IF IsTopLevelDef(lines[i])
      THEN PyBlocks(lines, i + 1,
                    IF Len(cur_lines) > 0 THEN Append(blocks, cur_lines)
                                          ELSE blocks,
                    <<lines[i]>>)
    ELSE PyBlocks(lines, i + 1, blocks, Append(cur_lines, lines[i]))

RECURSIVE PyChunks(_, _, _, _, _, _)
\* the loop over the blocks of _chunk_python, from block i on
PyChunks(blocks, cs, ov, i, char_pos, acc) ==
    IF i > Len(blocks) THEN [returns |-> TRUE, chunks |-> acc]
    ELSE LET content == JoinLines(blocks[i])
         IN IF Len(content) <= cs * 2
              THEN PyChunks(blocks, cs, ov, i + 1, char_pos + Len(content) + 1,
                            Append(acc, [content   |-> Strip(content),
                                         start_idx |-> char_pos,
                                         end_idx   |-> char_pos + Len(content)]))
              ELSE LET sub == SmartChunker_chunk_text(content, cs, ov, char_pos)
                   IN IF sub.returns
                        THEN PyChunks(blocks, cs, ov, i + 1,
                                      char_pos + Len(content) + 1,
                                      acc \o sub.chunks)
                        ELSE [returns |-> FALSE, chunks |-> acc \o sub.chunks]

\* SmartChunker._chunk_python
chunk_python(text, cs, ov) ==
    LET r == PyChunks(PyBlocks(SplitLines(text), 1, <<>>, <<>>), cs, ov, 1, 0, <<>>)
    IN IF r.returns /\ r.chunks = <<>>
         THEN SmartChunker_chunk_text(text, cs, ov, 0)
         ELSE r

\* SmartChunker.chunk(text, doc_id, doc_type)
SmartChunker_chunk(text, doc_type, cs, ov) ==
    IF Strip(text) = <<>> THEN [returns |-> TRUE, chunks |-> <<>>]
    ELSE IF doc_type \in {"markdown", "md"} THEN chunk_markdown(text, cs, ov)
    ELSE IF doc_type \in {"python", "py"} THEN chunk_python(text, cs, ov)
    ELSE SmartChunker_chunk_text(text, cs, ov, 0)

(***************************************************************************)
(* knowledge/bm25.py: BM25Index._chunk_content                             *)
(***************************************************************************)
\* chunk_size: int = 800, overlap: int = 120
BM25_CHUNK_SIZE == 800

BM25_OVERLAP == 120

\* int(len(content[pos:end_pos]) * 0.7); the slice is a full window whenever
\* the search runs, and int(800 * 0.7) is 560
SearchStart(n) == (7 * n) \div 10

\* the offset after the last break in search_slice, or -1
BreakOffset(search_slice) ==
    LET para_break == RFind(search_slice, <<"\n", "\n">>)
        sentence_end ==
            SetMax({ RFind(search_slice, <<".", " ">>),
                     RFind(search_slice, <<".", "\n">>),
                     RFind(search_slice, <<"U+3002">>),
                     RFind(search_slice, <<"U+FF1F">>),
                     RFind(search_slice, <<"U+FF01">>) })
        line_break == RFind(search_slice, <<"\n">>)
        space_break == RFind(search_slice, <<" ">>)
    IN IF para_break >= 0 THEN para_break + 2
       ELSE IF sentence_end >= 0 THEN sentence_end + 1
       ELSE IF line_break >= 0 THEN line_break + 1
       ELSE IF space_break >= 0 THEN space_break + 1
       ELSE -1

\* end_pos of the chunk that starts at pos
BM25EndPos(content, pos) ==
    LET end_pos == Min(pos + BM25_CHUNK_SIZE, Len(content))
        search_start == SearchStart(Len(PySlice(content, pos, end_pos)))
        break_offset == BreakOffset(PySlice(content, pos + search_start, end_pos))
    IN IF end_pos < Len(content) /\ break_offset > 0
         THEN pos + search_start + break_offset
         ELSE end_pos

RECURSIVE BM25Loop(_, _, _)
\* the while loop of _chunk_content
BM25Loop(content, pos, chunks) ==
    IF ~(pos < Len(content)) THEN chunks
    ELSE LET end_pos == BM25EndPos(content, pos)
         IN BM25Loop(content,
                     IF end_pos < Len(content) THEN end_pos - BM25_OVERLAP
                                               ELSE end_pos,
                     Append(chunks, [content   |-> PySlice(content, pos, end_pos),
                                     start_idx |-> pos,
                                     end_idx   |-> end_pos]))

\* BM25Index._chunk_content(doc)
BM25_chunk_content(content) ==
    IF Len(content) <= BM25_CHUNK_SIZE
      THEN << [content |-> content, start_idx |-> 0, end_idx |-> Len(content)] >>
      ELSE BM25Loop(content, 0, <<>>)

(***************************************************************************)
(* knowledge/index.py: VectorIndex._chunk_text                             *)
(***************************************************************************)
\* CHUNK_SIZE = 500, CHUNK_OVERLAP = 100
CHUNK_SIZE == 500

CHUNK_OVERLAP == 100

VectorSeps == << <<".", " ">>, <<"U+3002">>, <<"\n", "\n">>, <<"\n">> >>

RECURSIVE VectorBreak(_, _)
\* for sep in ['. ', ..., '\n\n', '\n']: the length the first separator found
\* past the middle cuts the chunk to, or -1
VectorBreak(chunk_text, k) ==
    IF k > Len(VectorSeps) THEN -1
    ELSE IF RFind(chunk_text, VectorSeps[k]) > CHUNK_SIZE \div 2
      THEN RFind(chunk_text, VectorSeps[k]) + Len(VectorSeps[k])
    ELSE VectorBreak(chunk_text, k + 1)

\* end of the chunk that starts at start
VectorEnd(text, start) ==
    LET end == start + CHUNK_SIZE
        cut == VectorBreak(PySlice(text, start, end), 1)
    IN IF end < Len(text) /\ cut >= 0 THEN start + cut ELSE end

RECURSIVE VectorLoop(_, _, _)
\* the while loop of VectorIndex._chunk_text
VectorLoop(text, start, chunks) ==
    IF ~(start < Len(text)) THEN chunks
    ELSE LET end == VectorEnd(text, start)
             chunk == [content   |-> Strip(PySlice(text, start, end)),
                       start_idx |-> start,
                       end_idx   |-> end]
         IN IF end - CHUNK_OVERLAP >= Len(text)
              THEN Append(chunks, chunk)
              ELSE VectorLoop(text, end - CHUNK_OVERLAP, Append(chunks, chunk))

\* VectorIndex._chunk_text(text, doc_id)
VectorIndex_chunk_text(text) == VectorLoop(text, 0, <<>>)

(***************************************************************************)
(* The texts and the configurations the chunkers are applied to            *)
(***************************************************************************)
\* the lines the short texts are made of: blank, plain, a sentence end, a
\* heading, a top-level def, an indented line, spaces only
LineKinds ==
    { <<>>,
      <<"a", "a">>,
      <<"a", ".", " ", "a">>,
      <<"#", " ", "a">>,
      <<"d", "e", "f", " ", "f">>,
      <<" ", "a">>,
      <<" ", " ">> }

\* the most lines of a short text
MaxLines == 2

ShortTexts ==
    { JoinLines(ls) : ls \in UNION { [1..n -> LineKinds] : n \in 1..MaxLines } }

\* n copies of the sequence s
Repeat(s, n) ==
    SubSeq([i \in 1..(n * Len(s)) |-> s[((i - 1) % Len(s)) + 1]], 1, n * Len(s))

\* texts longer than the indexes' chunk sizes: no break at all, sentences,
\* paragraphs, and one as long as a chunk and a half
LongTexts ==
    { Repeat(<<"a">>, 900),
      Repeat(<<"a", "a", "a", ".", " ">>, 260),
      Repeat(<<"a", "a", "a", "a", "a", "a", "a", "\n", "\n">>, 100),
      Repeat(<<"a", " ">>, 350) }

\* (chunk_size, overlap) of a SmartChunker, overlap < chunk_size
SmallConfigs ==
    { <<cs, ov>> \in {3, 4, 6} \X {0, 1, 2, 3} : ov < cs }

\* (chunk_size, overlap) with overlap >= chunk_size: __init__ takes them too
WideOverlapConfigs == { <<3, 3>>, <<3, 4>>, <<4, 6>> }

DefaultConfig == <<DEFAULT_CHUNK_SIZE, DEFAULT_OVERLAP>>

(***************************************************************************)
(* The knowledge base: the lexical index of knowledge/bm25.py, the         *)
(* semantic index of knowledge/index.py, and the operations of             *)
(* knowledge/hybrid.py and cli/main.py on them                             *)
(***************************************************************************)
DocIds == {"d1", "d2"}

\* the contents of the documents: empty, one chunk, more than one chunk
KBContents ==
    << <<>>, <<"a", "a">>, Repeat(<<"a", "a", " ">>, 300) >>

\* the queries: empty, white space and search syntax only, a prefix of a word
\* of the contents, no such prefix
KBQueries == { <<>>, <<" ", "*">>, <<"a">>, <<"d">> }

\* the top_k of a search
TopKInputs == {1, 2}

\* the most operations that write to the knowledge base
MaxOps == 3

\* searches are made on the knowledge bases that at most this many writing
\* operations lead to
MaxSearchOps == 2

\* the most searches of a behaviour.  The searches come after the writing
\* operations: a search changes nothing in the knowledge base, so a writing
\* operation after it leads where it leads without the search.
MaxSearches == 1

\* str(uuid4()): the n-th identifier handed out
Uuid(n) == ToString(n)

\* hashlib.sha256(doc.content.encode()).hexdigest()[:16], kept as a function
\* that is one-to-one on the contents of the model
ContentHash(content) ==
    CHOOSE i \in 1..Len(KBContents) : KBContents[i] = content

\* chunks = self._chunk_content(doc), for each content
BM25Chunked == [c \in Range(KBContents) |-> BM25_chunk_content(c)]

\* chunks = self._chunk_text(doc.content, doc.id), for each content
VectorChunked == [c \in Range(KBContents) |-> VectorIndex_chunk_text(c)]

\* bm25.db after _init_database: the three tables, empty
EmptyDb == [documents |-> {}, chunks |-> {}, chunks_fts |-> {}]

\* self._table is None and no table on disk
NoTable == [exists |-> FALSE, rows |-> <<>>]

\* the rows of a table that are not of doc_id
OtherRows_KeepAll(rows, doc_id) == rows

OtherRows(rows, doc_id) == { r \in rows : r.doc_id # doc_id }

\* BM25Index._remove_document_internal: the three DELETEs, and rowcount > 0
BM25Index_remove_document_internal(db, doc_id) ==
    [db  |-> [documents  |-> { r \in db.documents : r.id # doc_id },
              chunks     |-> OtherRows(db.chunks, doc_id),
              chunks_fts |-> OtherRows(db.chunks_fts, doc_id)],
     ret |-> \E r \in db.documents : r.id = doc_id]

\* BM25Index.remove_document(doc_id)
BM25Index_remove_document(db, doc_id) ==
    BM25Index_remove_document_internal(db, doc_id)

\* BM25Index.index_document(doc): the tables afterwards, the value returned,
\* the local `existing`, and the number of Chunk objects created.  The chunk
\* ids are the uuids after uuid0; created_at is `now`.  The columns file_name
\* and file_path, which no operation of the model reads, are left out.
BM25Index_index_document(db, doc, uuid0, now) ==
    LET existing == \E r \in db.documents : r.id = doc.id
        db1 == IF existing
                 THEN BM25Index_remove_document_internal(db, doc.id).db
                 ELSE db
        content_hash == ContentHash(doc.content)
        chunks == chunked.bm25[doc.content]
    IN [db |->
          [documents |-> db1.documents \cup
               { [id |-> doc.id, content_hash |-> content_hash, created_at |-> now] },
           chunks |-> db1.chunks \cup
               { [id |-> Uuid(uuid0 + k), doc_id |-> doc.id,
                  content |-> chunks[k].content,
                  start_idx |-> chunks[k].start_idx,
                  end_idx |-> chunks[k].end_idx, seq |-> k - 1]
                 : k \in 1..Len(chunks) },
           chunks_fts |-> db1.chunks_fts \cup
               { [content |-> chunks[k].content, content_hash |-> content_hash,
                  chunk_id |-> Uuid(uuid0 + k), doc_id |-> doc.id]
                 : k \in 1..Len(chunks) }],
        ret |-> Len(chunks),
        existing |-> existing,
        uuids |-> Len(chunks)]

\* BM25Index.get_stats()
BM25Index_get_stats(db) ==
    [total_documents |-> Cardinality(db.documents),
     total_chunks |-> Cardinality(db.chunks)]

\* the characters _build_fts5_query takes out of a term
FtsSpecial == {"\"", "'", "*", "(", ")", "[", "]", "{", "}"}

\* re.split(r'\s+', query.strip()): the terms, as a set
QueryTerms(query) ==
    { SubSeq(query, p[1], p[2]) : p \in
        { p \in (1..Len(query)) \X (1..Len(query)) :
            /\ p[1] <= p[2]
            /\ \A k \in p[1]..p[2] : ~IsSpace(query[k])
            /\ p[1] = 1 \/ IsSpace(query[p[1] - 1])
            /\ p[2] = Len(query) \/ IsSpace(query[p[2] + 1]) } }

\* BM25Index._build_fts5_query(query): the terms the query ANDs ("t"* each);
\* the empty set stands for None
build_fts5_query(query) ==
    { SelectSeq(t, LAMBDA c : c \notin FtsSpecial) : t \in QueryTerms(query) }
      \ { <<>> }

\* "t"* matches content: a token of content starts with t (unicode61 cuts the
\* tokens at the characters that are not letters or digits; the terms of the
\* model are one token each, which the porter stemmer leaves as it is)
HasPrefixToken(content, t) ==
    \E i \in 1..(Len(content) - Len(t) + 1) :
      /\ i = 1 \/ ~IsWordChar(content[i - 1])
      /\ SubSeq(content, i, i + Len(t) - 1) = t

\* the chunk contents the lexical index can hold
BM25Contents ==
    UNION { { BM25Chunked[c][k].content : k \in 1..Len(BM25Chunked[c]) }
            : c \in Range(KBContents) }

\* chunks_fts MATCH fts_query, for each query: the contents that match
FtsMatch ==
    [q \in KBQueries |->
       { c \in BM25Contents :
           \A t \in build_fts5_query(q) : HasPrefixToken(c, t) }]

\* the sequences of m different members of S
Orderings(S, m) ==
    { s \in [1..m -> S] : \A i, j \in 1..m : i # j => s[i] # s[j] }

\* BM25Index.search(query, top_k): the result lists it can return.  The rows
\* that match come in the order of their bm25() score, which depends on the
\* statistics of the whole corpus and is not computed here: every order of
\* the matching rows is taken to be possible.  The score is left out of the
\* results.
BM25Index_search(db, query, top_k) ==
    IF build_fts5_query(query) = {} THEN { <<>> }
    ELSE LET hits ==
               { [chunk |-> [id |-> p[1].chunk_id, doc_id |-> p[1].doc_id,
                             content |-> p[1].content,
                             start_idx |-> p[2].start_idx,
                             end_idx |-> p[2].end_idx]]
                 : p \in
                     { p \in db.chunks_fts \X db.chunks :
                         /\ p[2].id = p[1].chunk_id
                         /\ p[1].content \in chunked.fts[query] } }
         IN Orderings(hits, Min(top_k, Cardinality(hits)))

\* the rows of the table that are not of doc_id, in the table's order
TableDelete_All(rows, doc_id) == <<>>

\* self._table.delete(f"doc_id = '{doc_id}'"), for ids without a quote character
TableDelete(rows, doc_id) == SelectSeq(rows, LAMBDA r : r.doc_id # doc_id)

\* len(df[df["doc_id"] == doc_id])
CountOf(rows, doc_id) ==
    Cardinality({ k \in 1..Len(rows) : rows[k].doc_id = doc_id })

\* VectorIndex.index_document(doc): the table afterwards, the value returned
\* and the number of Chunk objects created.  A row's vector is the embedding
\* of its content and is left out, as are file_name and file_type.
VectorIndex_index_document(table, doc, uuid0) ==
    IF doc.content = <<>> THEN [table |-> table, ret |-> 0, uuids |-> 0]
    ELSE LET chunks == chunked.vector[doc.content]
             data == [k \in 1..Len(chunks) |->
                        [id |-> Uuid(uuid0 + k), doc_id |-> doc.id,
                         content |-> chunks[k].content,
                         start_idx |-> chunks[k].start_idx,
                         end_idx |-> chunks[k].end_idx]]
         IN IF Len(chunks) = 0 THEN [table |-> table, ret |-> 0, uuids |-> 0]
            ELSE [table |-> IF ~table.exists
                              THEN [exists |-> TRUE, rows |-> data]
                              ELSE [exists |-> TRUE, rows |-> table.rows \o data],
                  ret |-> Len(chunks),
                  uuids |-> Len(chunks)]

\* VectorIndex.remove_document(doc_id): the table afterwards, the value returned
VectorIndex_remove_document(table, doc_id) ==
    IF ~table.exists THEN [table |-> table, ret |-> 0]
    ELSE [table |-> [exists |-> TRUE, rows |-> TableDelete(table.rows, doc_id)],
          ret |-> CountOf(table.rows, doc_id)]

\* VectorIndex.get_stats()
VectorIndex_get_stats(table) ==
    IF ~table.exists THEN [total_chunks |-> 0, total_documents |-> 0]
    ELSE [total_chunks |-> Len(table.rows),
          total_documents |->
            Cardinality({ table.rows[k].doc_id : k \in 1..Len(table.rows) })]

\* VectorIndex.search(query, top_k): the result lists it can return.  The rows
\* come in the order of their distance from the query's embedding, which the
\* embedding provider decides: every order of the rows is taken to be
\* possible.  The score is left out of the results.  When the embedding or the
\* nearest-neighbour search raises (`fails`), the text search
\* self.table.search(query) answers with some rows, or it raises too and the
\* first top_k rows of the table are taken.
VectorIndex_search(table, query, top_k, fails) ==
    IF ~table.exists THEN { <<>> }
    ELSE LET hits == { [chunk |-> table.rows[k]] : k \in 1..Len(table.rows) }
             head == [k \in 1..Min(top_k, Len(table.rows)) |->
                        [chunk |-> table.rows[k]]]
         IN IF ~fails THEN Orderings(hits, Min(top_k, Cardinality(hits)))
            ELSE { head } \cup
                 UNION { Orderings(hits, m) : m \in 0..Min(top_k, Cardinality(hits)) }

\* VectorIndex.search can raise: the last fallback, self.table.to_pandas(), is
\* outside every try
VectorIndex_search_raises(table, fails) == table.exists /\ fails

\* weights that put the semantic list first
HybridWeights_VectorFirst == <<1, 2>>

\* self.bm25_weight = 2.0, self.vector_weight = 1.0
HybridWeights == <<2, 1>>

\* HybridRetriever.search(query, top_k): the result lists it can return.
\* detect_strong_signal looks at the scores of the first two lexical results;
\* with the scores left out, a non-empty lexical list can be strong or not.
HybridRetriever_search(db, table, query, top_k, fails) ==
    UNION { UNION {
      LET fusion_results ==
            reciprocal_rank_fusion(<<bm25_results, vector_results>>,
                                   HybridWeights, top_k)
          fused_list == [i \in 1..Len(fusion_results) |-> fusion_results[i].result]
      IN IF Len(bm25_results) = 0 THEN { fused_list }
         ELSE { Truncate(bm25_results, top_k), fused_list }
      : vector_results \in VectorIndex_search(table, query, top_k * 2, fails) }
      : bm25_results \in BM25Index_search(db, query, top_k * 2) }

(***************************************************************************)
(* rag/fusion.py: detect_strong_signal and position_aware_blend.  A score  *)
(* is a number of hundredths; a blended score a number of ten-thousandths. *)
(***************************************************************************)
\* threshold: float = 0.85 and gap_threshold: float = 0.15, in hundredths
StrongThresholdPct == 85

GapThresholdPct == 15

\* a detection that never takes a single result as a strong signal
detect_strong_signal_NoSingle(results) ==
    IF Len(results) < 2
    THEN [is_strong |-> FALSE,
          top_score |-> IF Len(results) > 0 THEN results[1].score ELSE 0,
          score_gap |-> IF Len(results) = 1 THEN 100 ELSE 0]
    ELSE [is_strong |-> /\ results[1].score >= StrongThresholdPct
                        /\ results[1].score - results[2].score >= GapThresholdPct,
          top_score |-> results[1].score,
          score_gap |-> results[1].score - results[2].score]

detect_strong_signal(results) ==
    IF Len(results) < 2
    THEN [is_strong |-> Len(results) = 1 /\ results[1].score >= StrongThresholdPct,
          top_score |-> IF Len(results) > 0 THEN results[1].score ELSE 0,
          score_gap |-> IF Len(results) = 1 THEN 100 ELSE 0]
    ELSE LET top1_score == results[1].score
             top2_score == results[2].score
             score_gap == top1_score - top2_score
         IN [is_strong |-> /\ top1_score >= StrongThresholdPct
                           /\ score_gap >= GapThresholdPct,
             top_score |-> top1_score,
             score_gap |-> score_gap]

\* rrf_weight, in hundredths
RrfWeightPct(rrf_rank) ==
    IF rrf_rank < 3 THEN 75 ELSE IF rrf_rank < 10 THEN 60 ELSE 40

\* a blend that does not cap the doubled rrf score at 1.0
position_aware_blend_NoCap(rrf_score, rerank_score, rrf_rank) ==
    (rrf_score * 2) * RrfWeightPct(rrf_rank)
      + rerank_score * (100 - RrfWeightPct(rrf_rank))

position_aware_blend(rrf_score, rerank_score, rrf_rank) ==
    LET rrf_weight == RrfWeightPct(rrf_rank)
        rerank_weight == 100 - rrf_weight
        normalized_rrf == Min(rrf_score * 2, 100)
    IN normalized_rrf * rrf_weight + rerank_score * rerank_weight

\* the result at place i of a list: the places tell the chunks apart
RankedResult(i, score) ==
    [chunk |-> [id |-> "c" \o ToString(i), doc_id |-> "d1", start_idx |-> 4 * (i - 1)],
     score |-> score]

\* the result lists of up to n results with scores from S, in any order
ScoredLists(n, S) ==
    UNION { { [i \in 1..m |-> RankedResult(i, t[i])] : t \in [1..m -> S] }
            : m \in 0..n }

SignalScores == { 0, 70, 84, 85, 95, 100 }

MaxSignalLen == 3

BlendScores == { 0, 10, 20, 30, 50, 60, 90, 100 }

MaxBlendRank == 11

(***************************************************************************)
(* rag/reranker.py: LLMReranker.  The oracle's answer to a prompt is a     *)
(* text, or the call raises.  A final score is a number of                 *)
(* ten-thousandths.                                                        *)
(***************************************************************************)
Digits == <<"0", "1", "2", "3", "4", "5", "6", "7", "8", "9">>

IsDigit(c) == \E d \in 1..10 : Digits[d] = c

DigitVal(c) == (CHOOSE d \in 1..10 : Digits[d] = c) - 1

\* the end of the run of digits of s that starts at i (i - 1 if there is none)
DigitRunEnd(s, i) ==
    LET stops == { j \in i..Len(s) : ~IsDigit(s[j]) }
    IN IF stops = {} THEN Len(s) ELSE SetMin(stops) - 1

RECURSIVE IntOf(_)
\* the number a run of digits reads as
IntOf(ds) ==
    IF Len(ds) = 0 THEN 0
    ELSE 10 * IntOf(SubSeq(ds, 1, Len(ds) - 1)) + DigitVal(ds[Len(ds)])

\* float() of the digits after the point, in hundredths (two digits are read)
FracOf(ds) ==
    (IF Len(ds) >= 1 THEN 10 * DigitVal(ds[1]) ELSE 0)
      + (IF Len(ds) >= 2 THEN DigitVal(ds[2]) ELSE 0)

\* re.search(r'(\d+\.?\d*)', ...): the first number of the text, in
\* hundredths, or -1 when the text holds no digit
FirstNumber(s) ==
    LET starts == { i \in 1..Len(s) : IsDigit(s[i]) }
    IN IF starts = {} THEN -1
       ELSE LET i == SetMin(starts)
                j == DigitRunEnd(s, i)
                point == j < Len(s) /\ s[j + 1] = "."
                k == IF point THEN DigitRunEnd(s, j + 2) ELSE j
            IN 100 * IntOf(SubSeq(s, i, j))
                 + (IF point THEN FracOf(SubSeq(s, j + 2, k)) ELSE 0)

\* LLMReranker._parse_score, in hundredths
parse_score(response) ==
    LET score == FirstNumber(Strip(response))
    IN IF score >= 0 THEN Max(0, Min(100, score)) ELSE 50

\* LLMReranker._score_document: what llm_client.chat does is `answer`
score_document(result, answer) ==
    IF answer.raises THEN result.score ELSE parse_score(answer.text)

\* every result is a candidate
RerankCandidates_All(results, top_k) == results

\* candidates = results[:min(len(results), top_k * 2)]
RerankCandidates(results, top_k) ==
    PySlice(results, 0, Min(Len(results), top_k * 2))

\* the loop, without the candidates whose oracle call raises
RerankResults_DropFailed(results, top_k, oracle, use_position_blend) ==
    LET candidates == RerankCandidates(results, top_k)
        kept == SelectSeq([i \in 1..Len(candidates) |-> i],
                          LAMBDA i : ~oracle[i].raises)
    IN [n \in 1..Len(kept) |->
          LET result == candidates[kept[n]]
              rerank_score == score_document(result, oracle[kept[n]])
          IN [result |-> result, rerank_score |-> rerank_score,
              original_rank |-> kept[n] - 1,
              final_score |->
                IF use_position_blend
                THEN position_aware_blend(result.score, rerank_score, kept[n] - 1)
                ELSE result.score * 50 + rerank_score * 50]]

\* for idx, result in enumerate(candidates): the list rerank_results
RerankResults(results, top_k, oracle, use_position_blend) ==
    LET candidates == RerankCandidates(results, top_k)
    IN [i \in 1..Len(candidates) |->
          LET result == candidates[i]
              rerank_score == score_document(result, oracle[i])
          IN [result |-> result, rerank_score |-> rerank_score,
              original_rank |-> i - 1,
              final_score |->
                IF use_position_blend
                THEN position_aware_blend(result.score, rerank_score, i - 1)
                ELSE result.score * 50 + rerank_score * 50]]

\* a sort that puts x before the entries of its score
RerankInsert_BeforeEqual(sorted, x) ==
    LET n == Cardinality({i \in 1..Len(sorted) :
                            sorted[i].final_score > x.final_score})
    IN SubSeq(sorted, 1, n) \o <<x>> \o SubSeq(sorted, n + 1, Len(sorted))

\* where sort(key=final_score, reverse=True) puts x in a sorted prefix
RerankInsert(sorted, x) ==
    LET n == Cardinality({i \in 1..Len(sorted) :
                            sorted[i].final_score >= x.final_score})
    IN SubSeq(sorted, 1, n) \o <<x>> \o SubSeq(sorted, n + 1, Len(sorted))

RECURSIVE RerankSorted(_, _)
RerankSorted(entries, n) ==
    IF n = 0 THEN <<>> ELSE RerankInsert(RerankSorted(entries, n - 1), entries[n])

\* LLMReranker.rerank: the list returned and the oracle calls made
LLMReranker_rerank(results, top_k, oracle, use_position_blend) ==
    IF Len(results) = 0 THEN [ret |-> <<>>, calls |-> <<>>]
    ELSE LET rerank_results ==
               RerankResults(results, top_k, oracle, use_position_blend)
             sorted == RerankSorted(rerank_results, Len(rerank_results))
             top == PySlice(sorted, 0, top_k)
         IN [ret |-> [i \in 1..Len(top) |->
                        [chunk |-> top[i].result.chunk,
                         score |-> top[i].final_score]],
             calls |-> [i \in 1..Len(rerank_results) |-> i]]

\* the oracle raises; it answers a score, an out-of-range number, no number
OracleAnswers ==
    { [raises |-> TRUE,  text |-> <<>>],
      [raises |-> FALSE, text |-> <<"0", ".", "9">>],
      [raises |-> FALSE, text |-> <<"5">>],
      [raises |-> FALSE, text |-> <<"n", "o">>] }

RerankScores == { 10, 60 }

\* the characters of an oracle response: digits, the point, a sign, white
\* space, a letter
ResponseChars == { "0", "1", "5", ".", "-", " ", "n" }

MaxResponseLen == 4

Responses == UNION { [1..n -> ResponseChars] : n \in 0..MaxResponseLen }

MaxRerankLen == 4

RerankTopK == { 0, 1, 2 }

(***************************************************************************)
(* One hybrid query, on result lists that carry scores:                    *)
(* HybridRetriever.search (knowledge/hybrid.py) and                        *)
(* Retriever._hybrid_search (knowledge/retriever.py).                      *)
(* enable_strong_signal is True: the repository never sets it otherwise.   *)
(***************************************************************************)
\* [fr.result for fr in fusion_results]
FusedResults(fusion_results) ==
    [i \in 1..Len(fusion_results) |-> fusion_results[i].result]

\* weights=[2.0, 1.0] in Retriever._hybrid_search
RetrieverWeights == <<2, 1>>

\* a search that has no result unless both sources have some
HybridRetriever_fuse_NeedsBoth(bm25_results, vector_results, top_k) ==
    IF Len(bm25_results) = 0 \/ Len(vector_results) = 0
    THEN <<>>
    ELSE FusedResults(reciprocal_rank_fusion(<<bm25_results, vector_results>>,
                                             <<2, 1>>, top_k))

\* HybridRetriever.search, from the strong-signal check on
HybridRetriever_fuse(bm25_results, vector_results, top_k) ==
    IF detect_strong_signal(bm25_results).is_strong
    THEN PySlice(bm25_results, 0, top_k)
    ELSE FusedResults(reciprocal_rank_fusion(<<bm25_results, vector_results>>,
                                             HybridWeights, top_k))

\* Retriever._hybrid_search, from the strong-signal check on
Retriever_hybrid_fuse(bm25_results, vector_results, top_k) ==
    IF Len(bm25_results) > 0 /\ detect_strong_signal(bm25_results).is_strong
    THEN PySlice(bm25_results, 0, top_k)
    ELSE IF Len(bm25_results) = 0
    THEN PySlice(vector_results, 0, top_k)
    ELSE FusedResults(reciprocal_rank_fusion(<<bm25_results, vector_results>>,
                                             RetrieverWeights, top_k))

HybridPaths == { "HybridRetriever.search", "Retriever._hybrid_search" }

\* a query that fuses the list of the search that returned first as list 0
HybridFuseOf_FirstDoneFirst(path, bm25_results, vector_results, top_k) ==
    IF detect_strong_signal(bm25_results).is_strong
    THEN PySlice(bm25_results, 0, top_k)
    ELSE FusedResults(reciprocal_rank_fusion(<<vector_results, bm25_results>>,
                                             HybridWeights, top_k))

\* the entry point's code after the two searches
HybridFuseOf(path, bm25_results, vector_results, top_k) ==
    IF path = "HybridRetriever.search"
    THEN HybridRetriever_fuse(bm25_results, vector_results, top_k)
    ELSE Retriever_hybrid_fuse(bm25_results, vector_results, top_k)

\* the passages a hybrid query finds, as the chunks of the lexical index
HChunks ==
    { [id |-> "b1", doc_id |-> "d1", start_idx |-> 0],
      [id |-> "b2", doc_id |-> "d1", start_idx |-> 4],
      [id |-> "b3", doc_id |-> "d2", start_idx |-> 0] }

\* the same passages in the semantic index, which gave them identifiers of
\* its own
VChunks ==
    { [id |-> "v1", doc_id |-> "d1", start_idx |-> 0],
      [id |-> "v2", doc_id |-> "d1", start_idx |-> 4],
      [id |-> "v3", doc_id |-> "d2", start_idx |-> 0] }

MaxHybridLen == 3

HDistinctSeqs(S, m) ==
    { t \in [1..m -> S] : \A i, j \in 1..m : i # j => t[i] # t[j] }

\* a bm25() score is a number of 1/RawScale
RawScale == 4 * 7 * 19

\* the bm25() scores of the matching rows: -1/19, -1/4 and -3/7
BM25RawScores == { -28, -133, -228 }

Abs(x) == IF x < 0 THEN -x ELSE x

\* score = 1.0 / (1.0 + abs(bm25_score)), in hundredths
BM25Normalized(bm25_score) == (100 * RawScale) \div (RawScale + Abs(bm25_score))

\* the matching rows, ORDER BY bm25_score ASC
BM25OrderedRows(m) ==
    { p \in HDistinctSeqs(HChunks, m) \X [1..m -> BM25RawScores] :
        \A i, j \in 1..m : i < j => p[2][i] <= p[2][j] }

\* what the lexical source holds for the query: the rows in the order of the
\* query, each with its normalized score
LexicalLists ==
    UNION { { [i \in 1..m |-> [chunk |-> p[1][i],
                               score |-> BM25Normalized(p[2][i])]] :
                p \in BM25OrderedRows(m) }
            : m \in 0..MaxHybridLen }

\* what the semantic source holds for the query: the scores fall with the rank
SemanticLists ==
    UNION { { [i \in 1..m |-> [chunk |-> t[i], score |-> 50 - 10 * i]] :
                t \in HDistinctSeqs(VChunks, m) }
            : m \in 0..MaxHybridLen }

HybridTopK == { 1, 2 }

\* a source's answer to search(query, top_k=limit)
SourceReturns(list, limit) == SubSeq(list, 1, Min(limit, Len(list)))

(***************************************************************************)
(* rag/__init__.py: ConversationRAG.  What the retriever and the model     *)
(* answer to a question is an input of chat.                               *)
(***************************************************************************)
\* self.history.append((question, result.answer)) and the limit on its length
ConversationRAG_chat(hist, limit, question, answer) ==
    LET appended == Append(hist, <<question, answer>>)
    IN IF Len(appended) > limit
       THEN PySlice(appended, -limit, Len(appended))
       ELSE appended

\* self.history.clear()
ConversationRAG_clear_history(hist) == <<>>

Questions == { "q1", "q2" }

Answers == { "a1", "a2" }

MaxHistoryValues == { 0, 1, 2, 3 }

\* the chats of one conversation between two clear_history calls
MaxChats == 4

(***************************************************************************)
(* Specifications                                                          *)
(***************************************************************************)
\* no fusion call
IdleFusion ==
    /\ result_lists = <<>> /\ weights = NoWeights /\ top_n = 0
    /\ fused = <<>> /\ f_pc = "idle"

\* no chunker call
IdleChunk ==
    /\ doc_text = <<>> /\ cfg_chunk_size = DEFAULT_CHUNK_SIZE /\ cfg_overlap = DEFAULT_OVERLAP
    /\ c_path = "none" /\ out_chunks = <<>> /\ c_pc = "idle"

\* no detect_strong_signal call
NoSignal == [is_strong |-> FALSE, top_score |-> 0, score_gap |-> 0]

IdleSignal == s_results = <<>> /\ s_signal = NoSignal /\ s_pc = "idle"

\* no position_aware_blend call
IdleBlend == b_rrf = 0 /\ b_ext = 0 /\ b_rank = 0 /\ b_out = 0 /\ b_pc = "idle"

\* no rerank call
IdleRerank ==
    /\ r_use_blend = TRUE /\ r_results = <<>> /\ r_top_k = 0 /\ r_oracle = <<>>
    /\ r_calls = <<>> /\ r_out = <<>> /\ r_pc = "idle"

\* no _parse_score call
IdleParse == p_response = <<>> /\ p_out = 0 /\ p_pc = "idle"

IdleRank == IdleSignal /\ IdleBlend /\ IdleRerank /\ IdleParse

\* no conversation
IdleConv == max_history = 10 /\ history = <<>> /\ chat_log = <<>> /\ conv_pc = "idle"

\* no hybrid query
IdleHybrid ==
    /\ h_path = "none" /\ h_src = [bm25 |-> <<>>, vector |-> <<>>] /\ h_top_k = 0
    /\ h_vector_results = <<>> /\ h_bm25_results = <<>> /\ h_out = <<>>
    /\ h_pc = "idle"

\* no operation yet
NoOp ==
    [op |-> "none", doc_id |-> "", content |-> <<>>,
     vector |-> -1, bm25 |-> -1, existing |-> FALSE, found |-> FALSE,
     query |-> <<>>, failed |-> FALSE, raised |-> FALSE]

\* an empty knowledge base: `midlayer init`
IdleKB ==
    /\ store = {}
    /\ bm25 = EmptyDb
    /\ vec_table = NoTable
    /\ uuid_count = 0
    /\ n_ops = 0
    /\ last_op = NoOp
    /\ last_results = <<>>
    /\ removed = {}
    /\ n_searches = 0
    /\ chunked = [bm25 |-> BM25Chunked, vector |-> VectorChunked, fts |-> FtsMatch]

InitFusion ==
    /\ result_lists \in ResultListsInputs
    /\ weights \in WeightsInputs
    /\ top_n \in TopNInputs
    /\ fused = <<>>
    /\ f_pc = "called"
    /\ IdleChunk
    /\ IdleKB
    /\ IdleRank
    /\ IdleHybrid
    /\ IdleConv

\* the call returns
Fuse ==
    /\ f_pc = "called"
    /\ fused' = reciprocal_rank_fusion(result_lists, weights, top_n)
    /\ f_pc' = "returned"
    /\ UNCHANGED <<result_lists, weights, top_n, chunkVars, kbVars, rankVars, hybridVars, convVars>>

NextFusion == Fuse

SpecFusion == InitFusion /\ [][NextFusion]_vars

InitChunk ==
    /\ \E cfg \in SmallConfigs \cup WideOverlapConfigs \cup {DefaultConfig} :
         /\ cfg_chunk_size = cfg[1]
         /\ cfg_overlap = cfg[2]
         /\ doc_text \in IF cfg = DefaultConfig THEN ShortTexts \cup LongTexts
                                               ELSE ShortTexts
    /\ c_path = "none"
    /\ out_chunks = <<>>
    /\ c_pc = "called"
    /\ IdleFusion
    /\ IdleKB
    /\ IdleRank
    /\ IdleHybrid
    /\ IdleConv

\* a call of SmartChunker.chunk: it returns its chunks, or never returns
SmartChunk(doc_type) ==
    /\ c_pc = "called"
    /\ LET r == SmartChunker_chunk(doc_text, doc_type, cfg_chunk_size, cfg_overlap)
       IN /\ out_chunks' = r.chunks
          /\ c_pc' = IF r.returns THEN "returned" ELSE "hung"
    /\ c_path' = doc_type
    /\ UNCHANGED <<doc_text, cfg_chunk_size, cfg_overlap, fusionVars, kbVars, rankVars,
                 hybridVars, convVars>>

ChunkText == SmartChunk("text")

ChunkMarkdown == SmartChunk("markdown")

ChunkPython == SmartChunk("python")

\* a call of BM25Index._chunk_content
ChunkBM25 ==
    /\ c_pc = "called"
    /\ out_chunks' = BM25_chunk_content(doc_text)
    /\ c_pc' = "returned"
    /\ c_path' = "bm25"
    /\ UNCHANGED <<doc_text, cfg_chunk_size, cfg_overlap, fusionVars, kbVars, rankVars,
                 hybridVars, convVars>>

\* a call of VectorIndex._chunk_text
ChunkVector ==
    /\ c_pc = "called"
    /\ out_chunks' = VectorIndex_chunk_text(doc_text)
    /\ c_pc' = "returned"
    /\ c_path' = "vector"
    /\ UNCHANGED <<doc_text, cfg_chunk_size, cfg_overlap, fusionVars, kbVars, rankVars,
                 hybridVars, convVars>>

NextChunk ==
    \/ ChunkText
    \/ ChunkMarkdown
    \/ ChunkPython
    \/ ChunkBM25
    \/ ChunkVector

SpecChunk == InitChunk /\ [][NextChunk]_vars

InitKB ==
    /\ IdleKB
    /\ IdleFusion
    /\ IdleChunk
    /\ IdleRank
    /\ IdleHybrid
    /\ IdleConv

\* HybridRetriever.index_document(doc): the semantic index, then the lexical
HybridIndexDocument(d, c) ==
    /\ n_ops < MaxOps /\ n_searches = 0
    /\ LET doc == [id |-> d, content |-> c]
           v == VectorIndex_index_document(vec_table, doc, uuid_count)
           b == BM25Index_index_document(bm25, doc, uuid_count + v.uuids, n_ops + 1)
       IN /\ vec_table' = v.table
          /\ bm25' = b.db
          /\ uuid_count' = uuid_count + v.uuids + b.uuids
          /\ last_op' = [NoOp EXCEPT !.op = "HybridRetriever.index_document",
                                     !.doc_id = d, !.content = c,
                                     !.vector = v.ret, !.bm25 = b.ret,
                                     !.existing = b.existing]
    /\ n_ops' = n_ops + 1
    /\ removed' = removed \ {d}
    /\ last_results' = <<>>
    /\ n_searches' = 0
    /\ UNCHANGED <<store, chunked, fusionVars, chunkVars,
                 rankVars, hybridVars, convVars>>

\* HybridRetriever.remove_document(doc_id)
HybridRemoveDocument(d) ==
    /\ n_ops < MaxOps /\ n_searches = 0
    /\ LET v == VectorIndex_remove_document(vec_table, d)
           b == BM25Index_remove_document(bm25, d)
       IN /\ vec_table' = v.table
          /\ bm25' = b.db
          /\ last_op' = [NoOp EXCEPT !.op = "HybridRetriever.remove_document",
                                     !.doc_id = d, !.vector = v.ret,
                                     !.found = b.ret]
    /\ n_ops' = n_ops + 1
    /\ removed' = removed \cup {d}
    /\ last_results' = <<>>
    /\ n_searches' = 0
    /\ UNCHANGED <<store, uuid_count, chunked, fusionVars, chunkVars,
                 rankVars, hybridVars, convVars>>

\* the ids an index or the store holds
KnownIds ==
    store \cup { r.id : r \in bm25.documents }
          \cup { vec_table.rows[k].doc_id : k \in 1..Len(vec_table.rows) }

\* `midlayer add <file>`: store.add_file gives the document a new id, then
\* index.index_document(doc) and bm25.index_document(doc)
CliAdd(d, c) ==
    /\ n_ops < MaxOps /\ n_searches = 0
    /\ d \notin KnownIds
    /\ LET doc == [id |-> d, content |-> c]
           v == VectorIndex_index_document(vec_table, doc, uuid_count)
           b == BM25Index_index_document(bm25, doc, uuid_count + v.uuids, n_ops + 1)
       IN /\ vec_table' = v.table
          /\ bm25' = b.db
          /\ uuid_count' = uuid_count + v.uuids + b.uuids
          /\ last_op' = [NoOp EXCEPT !.op = "cli.add",
                                     !.doc_id = d, !.content = c,
                                     !.vector = v.ret, !.bm25 = b.ret,
                                     !.existing = b.existing]
    /\ store' = store \cup {d}
    /\ n_ops' = n_ops + 1
    /\ removed' = removed \ {d}
    /\ last_results' = <<>>
    /\ n_searches' = 0
    /\ UNCHANGED <<chunked, fusionVars, chunkVars,
                 rankVars, hybridVars, convVars>>

\* `midlayer remove <doc_id>`: index.remove_document(doc_id) on the semantic
\* index, then store.remove_file(doc_id)
CliRemove(d) ==
    /\ n_ops < MaxOps /\ n_searches = 0
    /\ LET v == VectorIndex_remove_document(vec_table, d)
       IN /\ vec_table' = v.table
          /\ last_op' = [NoOp EXCEPT !.op = "cli.remove",
                                     !.doc_id = d, !.vector = v.ret,
                                     !.found = d \in store]
    /\ store' = store \ {d}
    /\ n_ops' = n_ops + 1
    /\ removed' = IF d \in store THEN removed \cup {d} ELSE removed
    /\ last_results' = <<>>
    /\ n_searches' = 0
    /\ UNCHANGED <<bm25, uuid_count, chunked, fusionVars, chunkVars,
                 rankVars, hybridVars, convVars>>

\* BM25Index.remove_document(doc_id), called on the index itself
BM25RemoveDocument(d) ==
    /\ n_ops < MaxOps /\ n_searches = 0
    /\ LET b == BM25Index_remove_document(bm25, d)
       IN /\ bm25' = b.db
          /\ last_op' = [NoOp EXCEPT !.op = "BM25Index.remove_document",
                                     !.doc_id = d, !.found = b.ret]
    /\ n_ops' = n_ops + 1
    /\ last_results' = <<>>
    /\ n_searches' = 0
    /\ UNCHANGED <<store, vec_table, uuid_count, removed, chunked, fusionVars, chunkVars,
                 rankVars, hybridVars, convVars>>

\* VectorIndex.remove_document(doc_id), called on the index itself
VectorRemoveDocument(d) ==
    /\ n_ops < MaxOps /\ n_searches = 0
    /\ LET v == VectorIndex_remove_document(vec_table, d)
       IN /\ vec_table' = v.table
          /\ last_op' = [NoOp EXCEPT !.op = "VectorIndex.remove_document",
                                     !.doc_id = d, !.vector = v.ret]
    /\ n_ops' = n_ops + 1
    /\ last_results' = <<>>
    /\ n_searches' = 0
    /\ UNCHANGED <<store, bm25, uuid_count, removed, chunked, fusionVars, chunkVars,
                 rankVars, hybridVars, convVars>>

\* a search can be made
CanSearch == n_ops <= MaxSearchOps /\ n_searches < MaxSearches

\* a search leaves the knowledge base as it is; `failed` tells that the
\* embedding provider or the vector store failed during the search, `raised`
\* that the search raised instead of returning
Searched(op, q, failed, raised, results) ==
    /\ n_searches' = n_searches + 1
    /\ last_op' = [NoOp EXCEPT !.op = op, !.query = q, !.failed = failed,
                               !.raised = raised]
    /\ last_results' = results
    /\ UNCHANGED <<store, bm25, vec_table, uuid_count, n_ops, removed, chunked,
                   fusionVars, chunkVars, rankVars, hybridVars, convVars>>

\* BM25Index.search(query, top_k)
BM25Search(q, top_k) ==
    /\ CanSearch
    /\ \E results \in BM25Index_search(bm25, q, top_k) :
         Searched("BM25Index.search", q, FALSE, FALSE, results)

\* VectorIndex.search(query, top_k)
VectorSearch(q, top_k, fails) ==
    /\ CanSearch
    /\ \/ \E results \in VectorIndex_search(vec_table, q, top_k, fails) :
            Searched("VectorIndex.search", q, fails, FALSE, results)
       \/ /\ VectorIndex_search_raises(vec_table, fails)
          /\ Searched("VectorIndex.search", q, fails, TRUE, <<>>)

\* HybridRetriever.search(query, top_k)
HybridSearch(q, top_k, fails) ==
    /\ CanSearch
    /\ \/ \E results \in HybridRetriever_search(bm25, vec_table, q, top_k, fails) :
            Searched("HybridRetriever.search", q, fails, FALSE, results)
       \/ /\ VectorIndex_search_raises(vec_table, fails)
          /\ Searched("HybridRetriever.search", q, fails, TRUE, <<>>)

NextKB ==
    \/ \E d \in DocIds : \E c \in Range(KBContents) : HybridIndexDocument(d, c)
    \/ \E d \in DocIds : HybridRemoveDocument(d)
    \/ \E d \in DocIds : \E c \in Range(KBContents) : CliAdd(d, c)
    \/ \E d \in DocIds : CliRemove(d)
    \/ \E d \in DocIds : BM25RemoveDocument(d)
    \/ \E d \in DocIds : VectorRemoveDocument(d)
    \/ \E q \in KBQueries : \E top_k \in TopKInputs : BM25Search(q, top_k)
    \/ \E q \in KBQueries : \E top_k \in TopKInputs : \E fails \in BOOLEAN :
         VectorSearch(q, top_k, fails)
    \/ \E q \in KBQueries : \E top_k \in TopKInputs : \E fails \in BOOLEAN :
         HybridSearch(q, top_k, fails)

SpecKB == InitKB /\ [][NextKB]_vars

\* detect_strong_signal is called
InitSignal ==
    /\ s_results \in ScoredLists(MaxSignalLen, SignalScores)
    /\ s_signal = NoSignal
    /\ s_pc = "called"
    /\ IdleBlend /\ IdleRerank /\ IdleParse

\* position_aware_blend is called
InitBlend ==
    /\ b_rrf \in BlendScores
    /\ b_ext \in BlendScores
    /\ b_rank \in 0..MaxBlendRank
    /\ b_out = 0
    /\ b_pc = "called"
    /\ IdleSignal /\ IdleRerank /\ IdleParse

\* LLMReranker.rerank is called
InitRerank ==
    /\ r_use_blend \in BOOLEAN
    /\ r_results \in ScoredLists(MaxRerankLen, RerankScores)
    /\ r_top_k \in RerankTopK
    /\ r_oracle \in [1..Len(r_results) -> OracleAnswers]
    /\ r_calls = <<>>
    /\ r_out = <<>>
    /\ r_pc = "called"
    /\ IdleSignal /\ IdleBlend /\ IdleParse

\* LLMReranker._parse_score is called
InitParse ==
    /\ p_response \in Responses
    /\ p_out = 0
    /\ p_pc = "called"
    /\ IdleSignal /\ IdleBlend /\ IdleRerank

InitRank ==
    /\ InitSignal \/ InitBlend \/ InitRerank \/ InitParse
    /\ IdleFusion /\ IdleChunk /\ IdleKB /\ IdleHybrid /\ IdleConv

DetectStrongSignal ==
    /\ s_pc = "called"
    /\ s_signal' = detect_strong_signal(s_results)
    /\ s_pc' = "returned"
    /\ UNCHANGED <<s_results, blendVars, rerankVars, parseVars, fusionVars, chunkVars, kbVars,
                   hybridVars, convVars>>

PositionAwareBlend ==
    /\ b_pc = "called"
    /\ b_out' = position_aware_blend(b_rrf, b_ext, b_rank)
    /\ b_pc' = "returned"
    /\ UNCHANGED <<b_rrf, b_ext, b_rank, signalVars, rerankVars, parseVars, fusionVars,
                   chunkVars, kbVars, hybridVars, convVars>>

Rerank ==
    /\ r_pc = "called"
    /\ LET call == LLMReranker_rerank(r_results, r_top_k, r_oracle, r_use_blend)
       IN /\ r_out' = call.ret
          /\ r_calls' = call.calls
    /\ r_pc' = "returned"
    /\ UNCHANGED <<r_use_blend, r_results, r_top_k, r_oracle, signalVars,
                   blendVars, parseVars, fusionVars, chunkVars, kbVars, hybridVars, convVars>>

ParseScore ==
    /\ p_pc = "called"
    /\ p_out' = parse_score(p_response)
    /\ p_pc' = "returned"
    /\ UNCHANGED <<p_response, signalVars, blendVars, rerankVars, fusionVars,
                   chunkVars, kbVars, hybridVars, convVars>>

NextRank == DetectStrongSignal \/ PositionAwareBlend \/ Rerank \/ ParseScore

SpecRank == InitRank /\ [][NextRank]_vars

\* a hybrid query is made
InitHybrid ==
    /\ h_path \in HybridPaths
    /\ h_src \in [bm25 : LexicalLists, vector : SemanticLists]
    /\ h_top_k \in HybridTopK
    /\ h_vector_results = <<>>
    /\ h_bm25_results = <<>>
    /\ h_out = <<>>
    /\ h_pc = "called"
    /\ IdleFusion /\ IdleChunk /\ IdleKB /\ IdleRank /\ IdleConv

\* vector_results = self.vector_index.search(query, top_k=top_k * 2)
HybridVectorSearch ==
    /\ h_pc = "called"
    /\ h_vector_results' = SourceReturns(h_src.vector, h_top_k * 2)
    /\ h_pc' = "vector_done"
    /\ UNCHANGED <<h_path, h_src, h_top_k, h_bm25_results, h_out, fusionVars,
                   chunkVars, kbVars, rankVars, convVars>>

\* bm25_results = self.bm25_index.search(query, top_k=top_k * 2)
HybridBM25Search ==
    /\ h_pc = "vector_done"
    /\ h_bm25_results' = SourceReturns(h_src.bm25, h_top_k * 2)
    /\ h_pc' = "bm25_done"
    /\ UNCHANGED <<h_path, h_src, h_top_k, h_vector_results, h_out, fusionVars,
                   chunkVars, kbVars, rankVars, convVars>>

\* the strong-signal check, the fusion and the return
HybridFuse ==
    /\ h_pc = "bm25_done"
    /\ h_out' = HybridFuseOf(h_path, h_bm25_results, h_vector_results, h_top_k)
    /\ h_pc' = "returned"
    /\ UNCHANGED <<h_path, h_src, h_top_k, h_vector_results, h_bm25_results,
                   fusionVars, chunkVars, kbVars, rankVars, convVars>>

NextHybrid == HybridVectorSearch \/ HybridBM25Search \/ HybridFuse

SpecHybrid == InitHybrid /\ [][NextHybrid]_vars


\* ConversationRAG(retriever, llm_client, max_history)
InitConv ==
    /\ max_history \in MaxHistoryValues
    /\ history = <<>>
    /\ chat_log = <<>>
    /\ conv_pc = "constructed"
    /\ IdleFusion /\ IdleChunk /\ IdleKB /\ IdleRank /\ IdleHybrid

\* chat(question), the query answering `answer`
Chat(question, answer) ==
    /\ conv_pc # "idle"
    /\ Len(chat_log) < MaxChats
    /\ history' = ConversationRAG_chat(history, max_history, question, answer)
    /\ chat_log' = Append(chat_log, <<question, answer>>)
    /\ conv_pc' = "chat"
    /\ UNCHANGED <<max_history, fusionVars, chunkVars, kbVars, rankVars, hybridVars>>

\* clear_history()
ClearHistory ==
    /\ conv_pc # "idle"
    /\ history' = ConversationRAG_clear_history(history)
    /\ chat_log' = <<>>
    /\ conv_pc' = "clear_history"
    /\ UNCHANGED <<max_history, fusionVars, chunkVars, kbVars, rankVars, hybridVars>>

NextConv ==
    \/ \E question \in Questions, answer \in Answers : Chat(question, answer)
    \/ ClearHistory

SpecConv == InitConv /\ [][NextConv]_vars

(***************************************************************************)
(* Properties of reciprocal_rank_fusion                                    *)
(***************************************************************************)
\* the (list, rank) places, 0-based, of the lists the loop goes through
Places ==
    { <<i, r>> \in (0..(Len(result_lists) - 1)) \X (0..MaxRank) :
        /\ i < ZipLen(result_lists, weights)
        /\ r < Len(result_lists[i + 1]) }

ResultAt(p) == result_lists[p[1] + 1][p[2] + 1]

WeightAt(p) == EffectiveWeights(result_lists, weights)[p[1] + 1]

\* a chunk's identity: its id, or (doc_id, start_idx) when the id is empty
Identity(c) ==
    IF c.id # "" THEN <<"id", c.id>> ELSE <<"at", c.doc_id, c.start_idx>>

PlacesOf(c) == { p \in Places : Identity(ResultAt(p).chunk) = Identity(c) }

\* the sum of w_i/(k+r+1) over the places of c
WeightedSum(c) ==
    SumOver(PlacesOf(c),
            [p \in PlacesOf(c) |-> (WeightAt(p) * Scale) \div (K + p[2] + 1)])

\* the bonuses the loop added for c, one for each place
BonusAdded(c) ==
    SumOver(PlacesOf(c), [p \in PlacesOf(c) |-> RankBonus(p[2])])

\* the one bonus of the best rank of c
BestRankBonus(c) ==
    IF \E p \in PlacesOf(c) : p[2] = 0 THEN 5 * (Scale \div 100)
    ELSE IF \E p \in PlacesOf(c) : p[2] < 3 THEN 2 * (Scale \div 100)
    ELSE 0

FusedIdx == 1..Len(fused)

\* f is in exactly one list, once
InOneList(f) == Cardinality(PlacesOf(f.result.chunk)) = 1

\* C8: a fused score less the bonuses added is exactly the sum of
\* w_i/(k+r+1) over the lists the chunk is in; and of two chunks that are each
\* in exactly one list, at the same rank, the one from the list with the higher
\* weight has the strictly higher fused score.
C8_WeightedSum ==
    f_pc = "returned" =>
      /\ \A i \in FusedIdx :
           fused[i].rrf_score - BonusAdded(fused[i].result.chunk)
             = WeightedSum(fused[i].result.chunk)
      /\ \A i, j \in FusedIdx :
           (/\ InOneList(fused[i]) /\ InOneList(fused[j])
            /\ \E p \in PlacesOf(fused[i].result.chunk) :
                 \E q \in PlacesOf(fused[j].result.chunk) :
                   p[2] = q[2] /\ WeightAt(p) > WeightAt(q))
           => fused[i].rrf_score > fused[j].rrf_score

\* a chunk in both lists, at the third rank or lower in one, and two chunks at
\* the same rank of one list each, under unequal weights
C8_Witness ==
    /\ f_pc = "returned"
    /\ \E i \in FusedIdx :
         /\ Cardinality(PlacesOf(fused[i].result.chunk)) = 2
         /\ \E p \in PlacesOf(fused[i].result.chunk) : p[2] >= Top3Cut - 1
    /\ \E i, j \in FusedIdx :
         /\ InOneList(fused[i]) /\ InOneList(fused[j])
         /\ \E p \in PlacesOf(fused[i].result.chunk) :
              \E q \in PlacesOf(fused[j].result.chunk) :
                p[2] = q[2] /\ WeightAt(p) > WeightAt(q)

\* C9: each fused chunk gets one bonus in total, 0.05 if it is at rank 0 of
\* some list, else 0.02 if it is in the top 3 of some list, else none; and
\* is_top_rank is true exactly when it is at rank 0 of some list.
C9_OneRankBonus ==
    f_pc = "returned" =>
      \A i \in FusedIdx :
        /\ fused[i].rrf_score - WeightedSum(fused[i].result.chunk)
             = BestRankBonus(fused[i].result.chunk)
        /\ fused[i].is_top_rank
             <=> \E p \in PlacesOf(fused[i].result.chunk) : p[2] = 0

\* the input with every list but list l (0-based) emptied
OnlyList(l) ==
    [i \in 1..Len(result_lists) |-> IF i = l + 1 THEN result_lists[i] ELSE <<>>]

\* the fused score of chunk c when only list l holds results: the score of a
\* chunk that is in list l alone, at the rank c has there
ScoreAlone(c, l) ==
    LET scores == RRFLists(<<>>, OnlyList(l), weights, 0)
        i == CHOOSE i \in 1..Len(scores) : scores[i].key = ChunkKey(c)
    IN scores[i].rrf_score

\* every list has a weight, and the weight is positive
PositiveWeights ==
    /\ Len(EffectiveWeights(result_lists, weights)) = Len(result_lists)
    /\ \A i \in 1..Len(result_lists) :
         EffectiveWeights(result_lists, weights)[i] > 0

\* C11: with a positive weight for each list, a chunk that is in two lists has
\* a strictly higher fused score than a chunk that is in only one of the two,
\* at the rank the first chunk has in that list.
C11_TwoListsScoreHigher ==
    (f_pc = "returned" /\ PositiveWeights) =>
      \A i \in FusedIdx :
        \A p, q \in PlacesOf(fused[i].result.chunk) :
          p[1] # q[1] =>
            fused[i].rrf_score > ScoreAlone(fused[i].result.chunk, p[1])

\* a returned chunk that is in both lists, at different ranks, under unequal
\* weights, and not at the top of either
C11_Witness ==
    /\ f_pc = "returned" /\ PositiveWeights
    /\ weights # NoWeights
    /\ \E i \in FusedIdx :
         \E p, q \in PlacesOf(fused[i].result.chunk) :
           /\ p[1] # q[1] /\ p[2] # q[2] /\ p[2] > 0 /\ q[2] > 0
           /\ WeightAt(p) # WeightAt(q)

\* C22: a call with a weights list whose length differs from the number of
\* result lists fails with an error: it returns no fused ranking.
C22_WeightsMismatchFails ==
    (/\ weights # NoWeights
     /\ Len(result_lists) > 0
     /\ Len(weights) # Len(result_lists)) => f_pc # "returned"

\* the first place of c, in list order and then rank order
FirstPlace(c) ==
    CHOOSE p \in PlacesOf(c) :
      \A q \in PlacesOf(c) : p[1] < q[1] \/ (p[1] = q[1] /\ p[2] <= q[2])

Before(p, q) == p[1] < q[1] \/ (p[1] = q[1] /\ p[2] < q[2])

\* C10: at most top_n results; no chunk identity twice; every result is a
\* result of some input list; scores do not increase along the output, and
\* results of equal score stand in the order of their first places; no input
\* list gives no result.
C10_RankedOutput ==
    f_pc = "returned" =>
      /\ Len(fused) <= top_n
      /\ \A i, j \in FusedIdx :
           i # j => Identity(fused[i].result.chunk) # Identity(fused[j].result.chunk)
      /\ \A i \in FusedIdx :
           \E l \in 1..Len(result_lists) :
             \E r \in 1..Len(result_lists[l]) : fused[i].result = result_lists[l][r]
      /\ \A i, j \in FusedIdx :
           i < j =>
             /\ fused[i].rrf_score >= fused[j].rrf_score
             /\ fused[i].rrf_score = fused[j].rrf_score =>
                  Before(FirstPlace(fused[i].result.chunk),
                         FirstPlace(fused[j].result.chunk))
      /\ Len(result_lists) = 0 => fused = <<>>

\* two results of equal score, the later one with an empty id, and a chunk of
\* the input that top_n cut off
C10_Witness ==
    /\ f_pc = "returned"
    /\ Len(result_lists) = 2
    /\ \E i, j \in FusedIdx :
         /\ i < j
         /\ fused[i].rrf_score = fused[j].rrf_score
         /\ fused[j].result.chunk.id = ""
    /\ \E p \in Places : \A i \in FusedIdx :
         Identity(ResultAt(p).chunk) # Identity(fused[i].result.chunk)

(***************************************************************************)
(* Properties of the chunkers                                              *)
(***************************************************************************)
ChunkIdx == 1..Len(out_chunks)

\* the text has a character that is not white space
NonBlank(text) == Strip(text) # <<>>

\* the configuration has overlap < chunk_size
NarrowOverlap == 0 <= cfg_overlap /\ cfg_overlap < cfg_chunk_size

\* the character index i is in the range of some returned chunk
Covered(i) ==
    \E k \in ChunkIdx : out_chunks[k].start_idx <= i /\ i < out_chunks[k].end_idx

\* C5: every chunk a chunking path returns has
\* 0 <= start_idx < end_idx <= len(text), on every path, for every text and
\* every chunk size and overlap (here: every overlap < chunk_size).
C5_ChunkInBounds ==
    (c_pc = "returned" /\ NarrowOverlap) =>
      \A k \in ChunkIdx :
        /\ 0 <= out_chunks[k].start_idx
        /\ out_chunks[k].start_idx < out_chunks[k].end_idx
        /\ out_chunks[k].end_idx <= Len(doc_text)

\* C6: the chunks SmartChunker.chunk returns for a non-blank text cover every
\* character index of the text, under the markdown, the python and the generic
\* strategy.
C6_ChunksCoverText ==
    (/\ c_pc = "returned"
     /\ NarrowOverlap
     /\ c_path \in {"text", "markdown", "python"}
     /\ NonBlank(doc_text))
    => \A i \in 0..(Len(doc_text) - 1) : Covered(i)

\* C7: the generic strategy returns exactly one chunk, spanning the whole text,
\* for a non-blank text no longer than chunk_size, and no chunk for an empty or
\* white-space-only text.
C7_ShortTextOneChunk ==
    (c_pc = "returned" /\ NarrowOverlap /\ c_path = "text") =>
      /\ ~NonBlank(doc_text) => out_chunks = <<>>
      /\ (NonBlank(doc_text) /\ Len(doc_text) <= cfg_chunk_size) =>
           /\ Len(out_chunks) = 1
           /\ out_chunks[1].start_idx = 0
           /\ out_chunks[1].end_idx = Len(doc_text)

\* C21: a chunker configured with overlap >= chunk_size fails at configuration
\* time: no call of chunk with such a configuration returns chunks, and none
\* gets into a loop whose window does not advance.
C21_WideOverlapFailsFast ==
    cfg_overlap >= cfg_chunk_size => c_pc \notin {"returned", "hung"}

\* C28: with 0 <= overlap < chunk_size the generic splitter ends, and the
\* start offsets of its chunks are not negative and strictly increase.
C28_GenericSplitterEnds ==
    (c_path = "text" /\ NarrowOverlap) =>
      /\ c_pc # "hung"
      /\ \A k \in ChunkIdx :
           /\ out_chunks[k].start_idx >= 0
           /\ k > 1 => out_chunks[k - 1].start_idx < out_chunks[k].start_idx

(***************************************************************************)
(* Properties of the knowledge base                                        *)
(***************************************************************************)
VectorIndexOps == {"HybridRetriever.index_document", "cli.add"}

BM25IndexOps == {"HybridRetriever.index_document", "cli.add"}

VectorRemoveOps ==
    {"HybridRetriever.remove_document", "cli.remove", "VectorIndex.remove_document"}

BM25RemoveOps == {"HybridRetriever.remove_document", "BM25Index.remove_document"}

SearchOps == {"BM25Index.search", "VectorIndex.search", "HybridRetriever.search"}

\* the step is a writing operation; last_op' says which
Wrote == n_ops' = n_ops + 1

\* the rows of doc_id in a table of the lexical index
RowsOf(rows, doc_id) == { r \in rows : r.doc_id = doc_id }

\* the rows of doc_id in the table of the semantic index
VectorRowsOf(table, doc_id) ==
    { table.rows[k] : k \in { k \in 1..Len(table.rows) : table.rows[k].doc_id = doc_id } }

\* C1: after HybridRetriever.remove_document(d), or `midlayer remove d` for a
\* stored document d, no row of d is left in either index, and until d is
\* indexed again no lexical, semantic or hybrid search returns a chunk of d.
C1_RemoveCascades ==
    /\ (\/ last_op.op = "HybridRetriever.remove_document"
        \/ last_op.op = "cli.remove" /\ last_op.found) =>
         /\ RowsOf(bm25.chunks, last_op.doc_id) = {}
         /\ RowsOf(bm25.chunks_fts, last_op.doc_id) = {}
         /\ VectorRowsOf(vec_table, last_op.doc_id) = {}
    /\ last_op.op \in SearchOps =>
         \A k \in 1..Len(last_results) : last_results[k].chunk.doc_id \notin removed

\* C2: BM25Index.index_document(doc) on an id that has a document row leaves,
\* for that id, exactly the rows of this call: one document row, the chunk
\* rows of _chunk_content(doc) under new ids, one full-text row for each; the
\* rows of the other documents are as before; and when the content is the one
\* indexed before, total_documents and total_chunks are as before.
C2_ReindexReplaces ==
    [][ (/\ Wrote
         /\ last_op'.op \in BM25IndexOps
         /\ \E r \in bm25.documents : r.id = last_op'.doc_id)
        => LET d == last_op'.doc_id
               chunks == BM25Chunked[last_op'.content]
               old == CHOOSE r \in bm25.documents : r.id = d
           IN /\ last_op'.existing
              /\ { r \in bm25'.documents : r.id = d }
                   = { [id |-> d, content_hash |-> ContentHash(last_op'.content),
                        created_at |-> n_ops'] }
              /\ Cardinality(RowsOf(bm25'.chunks, d)) = Len(chunks)
              /\ { <<r.seq, r.content, r.start_idx, r.end_idx>>
                     : r \in RowsOf(bm25'.chunks, d) }
                   = { <<k - 1, chunks[k].content, chunks[k].start_idx,
                         chunks[k].end_idx>> : k \in 1..Len(chunks) }
              /\ { r.id : r \in RowsOf(bm25'.chunks, d) }
                   \cap { r.id : r \in bm25.chunks } = {}
              /\ { <<r.chunk_id, r.content, r.content_hash>>
                     : r \in RowsOf(bm25'.chunks_fts, d) }
                   = { <<r.id, r.content, ContentHash(last_op'.content)>>
                       : r \in RowsOf(bm25'.chunks, d) }
              /\ Cardinality(RowsOf(bm25'.chunks_fts, d)) = Len(chunks)
              /\ { r \in bm25'.documents : r.id # d }
                   = { r \in bm25.documents : r.id # d }
              /\ bm25'.chunks \ RowsOf(bm25'.chunks, d)
                   = bm25.chunks \ RowsOf(bm25.chunks, d)
              /\ bm25'.chunks_fts \ RowsOf(bm25'.chunks_fts, d)
                   = bm25.chunks_fts \ RowsOf(bm25.chunks_fts, d)
              /\ old.content_hash = ContentHash(last_op'.content)
                   => BM25Index_get_stats(bm25') = BM25Index_get_stats(bm25)
      ]_vars

\* a document of more than one chunk has been indexed a second time, with
\* another document in the lexical index
C2_Witness ==
    /\ last_op.op \in BM25IndexOps
    /\ last_op.existing
    /\ last_op.bm25 >= 2
    /\ \E r \in bm25.chunks : r.doc_id # last_op.doc_id

\* C3: VectorIndex.index_document(doc) on an id that has rows in the table
\* leaves, for that id, the rows of this call alone, none of the earlier ones;
\* and when the content is the one indexed before, total_chunks is as before.
C3_VectorReindexReplaces ==
    [][ (/\ Wrote
         /\ last_op'.op \in VectorIndexOps
         /\ VectorRowsOf(vec_table, last_op'.doc_id) # {})
        => LET d == last_op'.doc_id
               chunks == VectorChunked[last_op'.content]
           IN /\ Cardinality(VectorRowsOf(vec_table', d)) = Len(chunks)
              /\ VectorRowsOf(vec_table', d) \cap VectorRowsOf(vec_table, d) = {}
              /\ Cardinality(VectorRowsOf(vec_table, d)) = Len(chunks)
                   => VectorIndex_get_stats(vec_table').total_chunks
                        = VectorIndex_get_stats(vec_table).total_chunks
      ]_vars

C12_StrongSignal ==
    s_pc = "returned" =>
      LET n == Len(s_results)
      IN /\ s_signal.is_strong <=>
               \/ /\ n >= 2
                  /\ s_results[1].score >= 85
                  /\ s_results[1].score - s_results[2].score >= 15
               \/ n = 1 /\ s_results[1].score >= 85
         /\ n = 0 => ~s_signal.is_strong
         /\ n >= 1 => s_signal.top_score = s_results[1].score
         /\ n >= 2 => s_signal.score_gap = s_results[1].score - s_results[2].score

\* three results, the first exactly at the threshold and exactly the gap above
\* the second: a strong signal
C12_Witness ==
    /\ s_pc = "returned"
    /\ Len(s_results) = 3
    /\ s_results[1].score = 85 /\ s_results[2].score = 70
    /\ s_signal.is_strong

\* the blend at another rank, for the scores of the call
BlendAt(rank) == position_aware_blend(b_rrf, b_ext, rank)

CandidateCount == Min(Len(r_results), 2 * r_top_k)

\* the place in the input list of a returned result
PlaceOf(res) == CHOOSE i \in 1..Len(r_results) : r_results[i].chunk = res.chunk

\* C16: the oracle is called exactly once for each of the first
\* min(len(results), 2*top_k) results and for no other; every returned result
\* is one of those candidates, none is returned twice, and at most top_k
\* results are returned.
C16_OracleCalls ==
    r_pc = "returned" =>
      /\ \A i \in 1..Len(r_results) :
           Cardinality({ k \in 1..Len(r_calls) : r_calls[k] = i })
             = IF i <= CandidateCount THEN 1 ELSE 0
      /\ Len(r_calls) = CandidateCount
      /\ \A k \in 1..Len(r_out) :
           \E i \in 1..CandidateCount : r_results[i].chunk = r_out[k].chunk
      /\ \A k, l \in 1..Len(r_out) : k # l => r_out[k].chunk # r_out[l].chunk
      /\ Len(r_out) <= r_top_k

\* more results than 2*top_k, and more candidates than top_k
C16_Witness ==
    /\ r_pc = "returned"
    /\ r_top_k = 1
    /\ Len(r_results) = 4
    /\ Len(r_calls) = 2
    /\ Len(r_out) = 1

\* the oracle's answers with the answer for candidate i replaced by a
OracleWith(i, a) == [r_oracle EXCEPT ![i] = a]

\* C17: whatever the oracle does, rerank returns exactly
\* min(top_k, len(results)) results, each of them a candidate, and what the
\* oracle does for one candidate does not change the final score of another.
C17_OracleFailureKeepsAll ==
    r_pc = "returned" =>
      /\ Len(r_out) = Min(r_top_k, Len(r_results))
      /\ \A i \in 1..CandidateCount : \A a \in OracleAnswers :
           LET here == RerankResults(r_results, r_top_k, r_oracle, r_use_blend)
               there == RerankResults(r_results, r_top_k, OracleWith(i, a),
                                      r_use_blend)
           IN \A j \in 1..CandidateCount :
                j # i => here[j].final_score = there[j].final_score

\* the oracle raises for one candidate, answers no number for another and an
\* out-of-range number for a third, and top_k results come back
C17_Witness ==
    /\ r_pc = "returned"
    /\ r_top_k = 2
    /\ Len(r_out) = 2
    /\ \E i, j, k \in 1..CandidateCount :
         /\ r_oracle[i].raises
         /\ ~r_oracle[j].raises /\ FirstNumber(r_oracle[j].text) = -1
         /\ ~r_oracle[k].raises /\ FirstNumber(r_oracle[k].text) > 100

\* C18: a returned candidate whose oracle call raised carries the score it
\* had in the input list.
C18_FailedKeepsScore ==
    r_pc = "returned" =>
      \A k \in 1..Len(r_out) :
        r_oracle[PlaceOf(r_out[k])].raises =>
          r_out[k].score = 100 * r_results[PlaceOf(r_out[k])].score

\* the final score of the candidate at place i of the input list: the blend
\* of its incoming score and of its oracle score, keyed by the rank i - 1
FinalAt(i) ==
    LET rerank_score == score_document(r_results[i], r_oracle[i])
    IN IF r_use_blend
       THEN position_aware_blend(r_results[i].score, rerank_score, i - 1)
       ELSE r_results[i].score * 50 + rerank_score * 50

\* C26: rerank returns candidates in non-increasing order of final score, the
\* final score of a candidate being the blend keyed by its rank in the input
\* list; candidates of equal final score keep their input order, each
\* returned result carries its final score, and no candidate left out has a
\* higher final score than a returned one.
C26_SortedByFinalScore ==
    r_pc = "returned" =>
      /\ \A k \in 1..Len(r_out) : r_out[k].score = FinalAt(PlaceOf(r_out[k]))
      /\ \A k, l \in 1..Len(r_out) :
           k < l =>
             /\ r_out[k].score >= r_out[l].score
             /\ r_out[k].score = r_out[l].score
                  => PlaceOf(r_out[k]) < PlaceOf(r_out[l])
      /\ \A i \in 1..CandidateCount : \A k \in 1..Len(r_out) :
           FinalAt(i) > r_out[k].score =>
             \E l \in 1..Len(r_out) : PlaceOf(r_out[l]) = i

\* the blend is in use; a later candidate has overtaken an earlier one, and
\* the last returned result has the final score of a later candidate that is
\* left out
C26_Witness ==
    /\ r_pc = "returned"
    /\ r_use_blend
    /\ Len(r_out) = 2
    /\ PlaceOf(r_out[1]) > PlaceOf(r_out[2])
    /\ \E i \in 1..CandidateCount :
         /\ i > PlaceOf(r_out[2])
         /\ i # PlaceOf(r_out[1])
         /\ FinalAt(i) = r_out[2].score

\* a decimal number starts at place i of s: at a digit, or at the point that
\* comes before a digit
NumberStartsAt(s, i) ==
    \/ IsDigit(s[i])
    \/ s[i] = "." /\ i < Len(s) /\ IsDigit(s[i + 1])

\* the first decimal number written in s, in hundredths: digits with an
\* optional fraction, or a fraction alone
FirstDecimal(s) ==
    LET i == SetMin({ k \in 1..Len(s) : NumberStartsAt(s, k) })
    IN IF s[i] = "."
       THEN FracOf(SubSeq(s, i + 1, DigitRunEnd(s, i + 1)))
       ELSE FirstNumber(s)

\* C30: _parse_score returns a value from 0 to 1 for every response: the
\* first decimal number of the text, brought into the range, and 0.5 when
\* the text holds no number.
C30_ParsedScoreInRange ==
    p_pc = "returned" =>
      /\ 0 <= p_out /\ p_out <= 100
      /\ IF \E k \in 1..Len(p_response) : NumberStartsAt(p_response, k)
         THEN p_out = Max(0, Min(100, FirstDecimal(p_response)))
         ELSE p_out = 50

(***************************************************************************)
(* Properties of a hybrid query                                            *)
(***************************************************************************)
\* the lexical list is a strong signal, in the words of the thresholds
LexicalStrong ==
    \/ /\ Len(h_bm25_results) >= 2
       /\ h_bm25_results[1].score >= 85
       /\ h_bm25_results[1].score - h_bm25_results[2].score >= 15
    \/ Len(h_bm25_results) = 1 /\ h_bm25_results[1].score >= 85

\* the fusion of the two lists, the lexical one as list 0 with weight 2.0 and
\* the semantic one with weight 1.0
FusionOf(lexical, semantic) ==
    FusedResults(reciprocal_rank_fusion(<<lexical, semantic>>, <<2, 1>>, h_top_k))

\* C13: when the lexical list is a strong signal the query returns the first
\* top_k lexical results in lexical order, whatever the semantic list is;
\* otherwise it returns the fusion of both lists with weights 2.0 and 1.0.
C13_StrongSignalShortCircuit ==
    h_pc = "returned" =>
      IF LexicalStrong
      THEN /\ h_out = SubSeq(h_bm25_results, 1, Min(h_top_k, Len(h_bm25_results)))
           /\ \A v \in SemanticLists :
                HybridFuseOf(h_path, h_bm25_results, v, h_top_k) = h_out
      ELSE h_out = FusionOf(h_bm25_results, h_vector_results)

\* a strong lexical list beside a semantic list, the query asking for more
\* results than the lexical list holds
C13_Witness ==
    /\ h_pc = "returned"
    /\ LexicalStrong
    /\ Len(h_vector_results) > 0
    /\ h_top_k > Len(h_bm25_results)
    /\ h_out = h_bm25_results

\* C14: the result is computed only once both searches have returned their
\* lists, and it is a function of the two lists alone, the lexical list
\* fused as list 0: the order in which the searches finish has no part in it.
C14_FusionAfterBothLists ==
    [][ /\ h_out' # h_out => h_pc' = "returned"
        /\ (h_pc' = "returned" /\ h_pc # "returned") =>
             /\ h_vector_results = SourceReturns(h_src.vector, 2 * h_top_k)
             /\ h_bm25_results = SourceReturns(h_src.bm25, 2 * h_top_k)
             /\ h_vector_results' = h_vector_results
             /\ h_bm25_results' = h_bm25_results
             /\ h_out' = IF LexicalStrong
                         THEN SubSeq(h_bm25_results, 1,
                                     Min(h_top_k, Len(h_bm25_results)))
                         ELSE FusionOf(h_bm25_results, h_vector_results)
      ]_vars

\* two results are of the same passage
SamePassage(r, s) ==
    r.chunk.doc_id = s.chunk.doc_id /\ r.chunk.start_idx = s.chunk.start_idx

\* a query whose two lists hold the same two passages in opposite orders has
\* returned the first lexical result first
C14_Witness ==
    /\ h_pc = "returned"
    /\ ~LexicalStrong
    /\ Len(h_bm25_results) = 2 /\ Len(h_vector_results) = 2
    /\ SamePassage(h_bm25_results[1], h_vector_results[2])
    /\ SamePassage(h_bm25_results[2], h_vector_results[1])
    /\ Len(h_out) = 2
    /\ h_out[1] = h_bm25_results[1]

\* C25: the lexical search returns its results in non-increasing order of the
\* normalized score, the first result carrying the highest score of the list,
\* and every score is above 0 and at most 1.
C25_LexicalScoresDescend ==
    h_pc \in {"bm25_done", "returned"} =>
      /\ \A i, j \in 1..Len(h_bm25_results) :
           i < j => h_bm25_results[i].score >= h_bm25_results[j].score
      /\ \A i \in 1..Len(h_bm25_results) :
           /\ h_bm25_results[1].score >= h_bm25_results[i].score
           /\ h_bm25_results[i].score > 0
           /\ h_bm25_results[i].score <= 100

\* C29: when one of the two searches returns results and the other returns
\* an empty list, the query returns the results of the one, in its order, cut
\* to top_k, at both entry points.
C29_SingleSourceResult ==
    h_pc = "returned" =>
      /\ (Len(h_bm25_results) > 0 /\ Len(h_vector_results) = 0)
           => h_out = SubSeq(h_bm25_results, 1, Min(h_top_k, Len(h_bm25_results)))
      /\ (Len(h_vector_results) > 0 /\ Len(h_bm25_results) = 0)
           => h_out = SubSeq(h_vector_results, 1,
                             Min(h_top_k, Len(h_vector_results)))

\* HybridRetriever.search has fused a lexical list that is not a strong
\* signal, and that is longer than top_k, with an empty semantic list
C29_Witness ==
    /\ h_pc = "returned"
    /\ h_path = "HybridRetriever.search"
    /\ h_vector_results = <<>>
    /\ ~LexicalStrong
    /\ Len(h_bm25_results) > h_top_k
    /\ Len(h_out) = h_top_k

(***************************************************************************)
(* Properties of the searches of the knowledge base                        *)
(***************************************************************************)
\* the ids of the chunks the lexical index holds
LexicalChunkIds == { r.id : r \in bm25.chunks }

\* C19: when the embedding provider or the vector store fails during a
\* search, VectorIndex.search returns an empty list and raises nothing, and a
\* hybrid query returns only chunks of the lexical index.
C19_VectorFailureGivesEmpty ==
    (last_op.op \in SearchOps /\ last_op.failed) =>
      /\ ~last_op.raised
      /\ last_op.op = "VectorIndex.search" => last_results = <<>>
      /\ last_op.op = "HybridRetriever.search" =>
           \A k \in 1..Len(last_results) :
             last_results[k].chunk.id \in LexicalChunkIds

\* the query has no usable term: it is empty, or holds only white space and
\* characters taken out as search syntax
NoUsableTerm(q) == \A k \in 1..Len(q) : IsSpace(q[k]) \/ q[k] \in FtsSpecial

\* C20: a search with a query that has no usable term, and during which
\* nothing fails, returns an empty list, at every entry point.
C20_EmptyQueryGivesEmpty ==
    (/\ last_op.op \in SearchOps
     /\ ~last_op.failed
     /\ NoUsableTerm(last_op.query)) =>
      last_results = <<>> /\ ~last_op.raised

VectorDocuments(table) == { table.rows[k].doc_id : k \in 1..Len(table.rows) }

BM25Documents(db) == { r.id : r \in db.documents }

\* C27: a HybridRetriever.index_document or remove_document call made when
\* the two indexes hold the same documents leaves them holding the same
\* documents, whatever the content, and get_stats() reports the same
\* total_documents for both; so they agree after any sequence of such calls.
C27_IndexesHoldSameDocuments ==
    [][ (/\ last_op'.op \in {"HybridRetriever.index_document",
                             "HybridRetriever.remove_document"}
         /\ n_ops' = n_ops + 1
         /\ VectorDocuments(vec_table) = BM25Documents(bm25))
        => /\ VectorDocuments(vec_table') = BM25Documents(bm25')
           /\ VectorIndex_get_stats(vec_table').total_documents
                = BM25Index_get_stats(bm25').total_documents
      ]_vars

(***************************************************************************)
(* Properties of ConversationRAG                                           *)
(***************************************************************************)
\* the last n pairs recorded, oldest first
MostRecent(n) == SubSeq(chat_log, Len(chat_log) - n + 1, Len(chat_log))

\* C23: after any sequence of chat and clear_history calls the history holds
\* at most max_history pairs, they are the most recent pairs recorded, oldest
\* first, and clear_history leaves the history empty.
C23_HistoryBounded ==
    conv_pc # "idle" =>
      /\ Len(history) <= max_history
      /\ history = MostRecent(Min(max_history, Len(chat_log)))
      /\ conv_pc = "clear_history" => history = <<>>

====
